---- MODULE Spec2Model ----
(***************************************************************************)
(* A model of the construct combinator engine (construct/core.py): the     *)
(* stream, the context, the construct catalogue and the parse / build /    *)
(* sizeof operations, driven by a harness that makes one top-level call    *)
(* at a time and records its inputs and its outcome.                       *)
(***************************************************************************)
EXTENDS Integers, Sequences, FiniteSets, TLC

VARIABLES
    pc,      \* "idle": no call made; "struct": inside Struct._parse / _build; "done": a call returned
    op,      \* the call made: "none", "parse", "build", "parseback", "sizeof", "construct"
    cid,     \* the catalogue name of the construct the call was made on
    arg,     \* build: the value given; parse: None
    data0,   \* the stream's bytes before the call
    pos0,    \* the stream's position before the call
    data,    \* the stream's bytes
    pos,     \* the stream's position
    ctx,     \* the context (a Container)
    ret,     \* the value the call returned
    err,     \* the exception class the call raised, or "none"
    idx,     \* Struct stepping: the index of the next sub
    obj,     \* Struct stepping: the container being filled (parse) or read (build)
    log,     \* Struct stepping: the context seen at the start of each sub so far
    heap,    \* the module's shared construct objects, by name: their fields now
    wrappers, \* the stream wrappers Restream created during the call: "open" or "closed"
    lazy,    \* a LazyBound object shared by the threads: its bindfunc and its bound field
    invoked, \* the number of times the thunk lazy.bindfunc has been invoked
    thread   \* per thread: where it is inside a call on the LazyBound object

\* the variables of the calls made by one caller, and of the threads
callvars == <<pc, op, cid, arg, data0, pos0, data, pos, ctx, ret, err, idx, obj, log, heap,
              wrappers>>
lazyvars == <<lazy, invoked, thread>>
vars == <<callvars, lazyvars>>

(***************************************************************************)
(* Bounds of the model.                                                    *)
(***************************************************************************)
MaxLen == 3      \* longest input byte string given to parse
MaxStart == 1    \* largest stream position a parse_stream call starts at
MaxItems == 3    \* longest list given to a repeater's build

\* The byte values inputs are drawn from: small integers, a byte with the
\* continuation bit (0x85) and its low seven bits (0x05).
ByteVals == {0, 1, 2, 3, 5, 133}

Max2(a, b) == IF a >= b THEN a ELSE b
Min2(a, b) == IF a <= b THEN a ELSE b

RECURSIVE SeqsUpTo(_, _)
SeqsUpTo(S, n) ==
    IF n = 0 THEN {<<>>}
    ELSE LET shorter == SeqsUpTo(S, n - 1)
         IN  shorter \cup {Append(s, x) : s \in {t \in shorter : Len(t) = n - 1}, x \in S}

RECURSIVE Pow(_, _)
Pow(b, e) == IF e = 0 THEN 1 ELSE b * Pow(b, e - 1)

(***************************************************************************)
(* Values: Python objects, tagged by type.                                 *)
(***************************************************************************)
None == [k |-> "none"]
PyInt(n) == [k |-> "int", v |-> n]
PyBytes(s) == [k |-> "bytes", v |-> s]
PyList(s) == [k |-> "list", v |-> s]
PyTuple(s) == [k |-> "tuple", v |-> s]
PyBool(b) == [k |-> "bool", v |-> b]
PyStr(s) == [k |-> "str", v |-> s]

\* Python's ==. Values of different types are unequal.
ValEq(a, b) == a.k = b.k /\ a = b

(***************************************************************************)
(* Container: an insertion-ordered mapping from name to value.             *)
(***************************************************************************)
Container == [k |-> "con", keys |-> <<>>, v |-> <<>>]

Range1(s) == {s[i] : i \in DOMAIN s}

Has(c, key) == key \in Range1(c.keys)

Get(c, key) == c.v[key]

Set(c, key, val) ==
    [k |-> "con",
     keys |-> IF Has(c, key) THEN c.keys ELSE Append(c.keys, key),
     v |-> [x \in Range1(c.keys) \cup {key} |-> IF x = key THEN val ELSE c.v[x]]]

Del(c, key) ==
    [k |-> "con",
     keys |-> SelectSeq(c.keys, LAMBDA x : x # key),
     v |-> [x \in Range1(c.keys) \ {key} |-> c.v[x]]]

\* Container(_ = context): the scope a nesting struct gives its subs
Nested(context) == Set(Container, "_", context)

(***************************************************************************)
(* Exceptions (core.py 16-47).                                             *)
(***************************************************************************)
NoError == "none"

\* the classes derived from ConstructError
ConstructError ==
    {"ConstructError", "FieldError", "SizeofError", "AdaptationError", "ArrayError",
     "RangeError", "SwitchError", "SelectError", "TerminatorError", "PaddingError",
     "ConstError", "StringError", "ChecksumError", "ValidationError", "BitIntegerError"}

\* OverwriteError derives from ValueError
ValueErrors == {"ValueError", "OverwriteError"}

\* `except Exception`
Exception ==
    ConstructError \cup ValueErrors \cup {"KeyError", "TypeError", "AssertionError", "StopIteration"}

(***************************************************************************)
(* The machine a construct runs on: the stream (data, pos), the context,   *)
(* eobj, the container that context["<obj>"] refers to (Python passes it   *)
(* by reference, so an embedded struct's writes reach its parent), and the *)
(* stream wrappers created so far, each "open" or "closed".                *)
(***************************************************************************)
Machine(d, p, c) ==
    [data |-> d, pos |-> p, ctx |-> c, eobj |-> Container, wrappers |-> <<>>]

\* what a call leaves: the exception (or "none"), the value, the machine
Ok(val, m) == [err |-> NoError, val |-> val, m |-> m]
Raise(e, m) == [err |-> e, val |-> None, m |-> m]

\* stream.read(length): the bytes there are, at most length
StreamRead(m, length) ==
    LET avail == Max2(0, Len(m.data) - m.pos)
        got == Min2(length, avail)
    IN  [bytes |-> [i \in 1..got |-> m.data[m.pos + i]],
         m |-> [m EXCEPT !.pos = m.pos + got]]

\* stream.read(): to the end of the stream
StreamReadAll(m) == StreamRead(m, Max2(0, Len(m.data) - m.pos))

\* stream.write(b) of a BytesIO: overwrite from pos, extend, zero-fill a gap
StreamWrite(m, b) ==
    LET n == Len(b)
        newlen == IF n = 0 THEN Len(m.data) ELSE Max2(Len(m.data), m.pos + n)
    IN  [m EXCEPT !.data = [i \in 1..newlen |->
                               IF i > m.pos /\ i <= m.pos + n THEN b[i - m.pos]
                               ELSE IF i <= Len(m.data) THEN m.data[i] ELSE 0],
                  !.pos = m.pos + n]

\* stream.seek(offset, 0)
StreamSeek(m, offset) == [m EXCEPT !.pos = offset]

\* stream.seek(offset, 2 if offset < 0 else 0)
StreamSeekWhence(m, offset) ==
    [m EXCEPT !.pos = IF offset < 0 THEN Max2(0, Len(m.data) + offset) ELSE offset]

\* _read_stream: read exactly length bytes or raise FieldError (the short
\* read has already moved the position)
read_stream(m, length) ==
    IF length < 0 THEN Raise("ValueError", m)
    ELSE LET r == StreamRead(m, length)
         IN  IF Len(r.bytes) # length THEN Raise("FieldError", r.m)
             ELSE Ok(PyBytes(r.bytes), r.m)

\* _write_stream: write exactly length bytes or raise FieldError
write_stream(m, length, b) ==
    IF length < 0 THEN Raise("ValueError", m)
    ELSE IF b.k # "bytes" THEN Raise("TypeError", m)
    ELSE IF Len(b.v) # length THEN Raise("FieldError", m)
    ELSE Ok(None, StreamWrite(m, b.v))

(***************************************************************************)
(* Construct flags and the base class.                                     *)
(***************************************************************************)
FLAG_COPY_CONTEXT == 1
FLAG_DYNAMIC == 2
FLAG_EMBED == 4
FLAG_NESTING == 8

\* the name None
NoName == "None"

\* _is_flag: conflags & flag, flag a single bit
is_flag(conflags, flag) == (conflags \div flag) % 2 = 1

\* _set_flag: conflags |= flag, flag a single bit
set_flag(conflags, flag) == IF is_flag(conflags, flag) THEN conflags ELSE conflags + flag

\* _clear_flag: conflags &= ~flag, flag a single bit
clear_flag(conflags, flag) == IF is_flag(conflags, flag) THEN conflags - flag ELSE conflags

\* conflags | other
or_flags(a, b) ==
    LET bit(f) == IF is_flag(a, f) \/ is_flag(b, f) THEN f ELSE 0
    IN  bit(FLAG_COPY_CONTEXT) + bit(FLAG_DYNAMIC) + bit(FLAG_EMBED) + bit(FLAG_NESTING)

\* conflags & ~other
and_not_flags(a, b) ==
    LET bit(f) == IF is_flag(a, f) /\ ~is_flag(b, f) THEN f ELSE 0
    IN  bit(FLAG_COPY_CONTEXT) + bit(FLAG_DYNAMIC) + bit(FLAG_EMBED) + bit(FLAG_NESTING)

RECURSIVE inherit_flags(_, _)
\* _inherit_flags: pull the flags of the subconstructs
inherit_flags(conflags, subcons) ==
    IF subcons = <<>> THEN conflags
    ELSE inherit_flags(or_flags(conflags, Head(subcons).conflags), Tail(subcons))

(***************************************************************************)
(* The functions a user hands to a construct (lambdas over the context).   *)
(***************************************************************************)
\* lambda ctx: n
ConstFn(n) == [f |-> "const", n |-> n, key |-> ""]
\* lambda ctx: ctx[key]
CtxFn(key) == [f |-> "ctx", n |-> 0, key |-> key]

\* lambda ctx: ctx[key] != 0
NonZeroFn(key) == [f |-> "nonzero", n |-> 0, key |-> key]

\* fn(context): the value, or KeyError when the context lacks the key
Call(fn, context) ==
    IF fn.f = "const" THEN [err |-> NoError, val |-> PyInt(fn.n)]
    ELSE IF ~Has(context, fn.key) THEN [err |-> "KeyError", val |-> None]
    ELSE IF fn.f = "nonzero"
    THEN [err |-> NoError, val |-> PyBool(~ValEq(Get(context, fn.key), PyInt(0)))]
    ELSE [err |-> NoError, val |-> Get(context, fn.key)]

\* the hash function handed to Checksum: the sum of the bytes, modulo 256
RECURSIVE SumBytes(_)
SumBytes(b) == IF b = <<>> THEN 0 ELSE Head(b) + SumBytes(Tail(b))
hashfunc(b) == PyInt(SumBytes(b) % 256)

(***************************************************************************)
(* Constructors: what each class's __init__ leaves in the object.          *)
(***************************************************************************)
\* struct.Struct(format).size for the format characters used
PackerSize(format) == CASE format = "B" -> 1 [] format = "H" -> 2 [] format = "L" -> 4

StaticField(name, length) ==
    [k |-> "StaticField", name |-> name, conflags |-> 0, length |-> length]

FormatField(name, endianity, format) ==
    [k |-> "FormatField", name |-> name, conflags |-> 0, length |-> PackerSize(format),
     endianity |-> endianity]

MetaField(name, lengthfunc) ==
    [k |-> "MetaField", name |-> name, conflags |-> set_flag(0, FLAG_DYNAMIC),
     lengthfunc |-> lengthfunc]

MetaArray(countfunc, subcon) ==
    [k |-> "MetaArray", name |-> subcon.name,
     conflags |-> set_flag(clear_flag(subcon.conflags, FLAG_COPY_CONTEXT), FLAG_DYNAMIC),
     countfunc |-> countfunc, subcon |-> subcon]

\* a predicate `lambda obj, ctx: obj == value`
ObjEqFn(value) == [f |-> "objeq", value |-> value]

RepeatUntil(predicate, subcon) ==
    [k |-> "RepeatUntil", name |-> subcon.name,
     conflags |-> set_flag(clear_flag(subcon.conflags, FLAG_COPY_CONTEXT), FLAG_DYNAMIC),
     predicate |-> predicate, subcon |-> subcon]

Range(mincount, maxcount, subcon) ==
    [k |-> "Range", name |-> subcon.name,
     conflags |-> set_flag(clear_flag(subcon.conflags, FLAG_COPY_CONTEXT), FLAG_DYNAMIC),
     mincount |-> mincount, maxcount |-> maxcount, subcon |-> subcon]

Struct(name, subcons, nested, allow_overwrite) ==
    [k |-> "Struct", name |-> name,
     conflags |-> clear_flag(inherit_flags(0, subcons), FLAG_EMBED),
     subcons |-> subcons, nested |-> nested, allow_overwrite |-> allow_overwrite]

Peek(subcon, performbuild) ==
    [k |-> "Peek", name |-> subcon.name, conflags |-> subcon.conflags,
     subcon |-> subcon, performbuild |-> performbuild]

\* buildfrom: None, an index (PyInt) or a name (PyStr)
Union(name, subcons, buildfrom) ==
    [k |-> "Union", name |-> name, conflags |-> 0,
     subcons |-> [i \in DOMAIN subcons |-> Peek(subcons[i], TRUE)], buildfrom |-> buildfrom]

Select(name, subcons, include_name) ==
    [k |-> "Select", name |-> name,
     conflags |-> set_flag(inherit_flags(0, subcons), FLAG_DYNAMIC),
     subcons |-> subcons, include_name |-> include_name]

\* Reconfig writes the new name into the wrapped construct, then wraps it
Reconfig(name, subcon, setflags, clearflags) ==
    LET renamed == [subcon EXCEPT !.name = name]
    IN  [k |-> "Reconfig", name |-> name,
         conflags |-> and_not_flags(or_flags(renamed.conflags, setflags), clearflags),
         subcon |-> renamed]

Anchor(name) == [k |-> "Anchor", name |-> name, conflags |-> 0]

AnchorRange(name) == [k |-> "AnchorRange", name |-> name, conflags |-> 0]

Computed(name, func) ==
    [k |-> "Computed", name |-> name, conflags |-> set_flag(0, FLAG_DYNAMIC), func |-> func]

Pass == [k |-> "Pass", name |-> NoName, conflags |-> 0]

Terminator == [k |-> "Terminator", name |-> NoName, conflags |-> 0]

Padding(length, pattern, strict) ==
    [k |-> "Padding", name |-> NoName, conflags |-> 0, length |-> length,
     pattern |-> pattern, strict |-> strict]

Aligned(subcon, modulus, pattern) ==
    [k |-> "Aligned", name |-> subcon.name, conflags |-> 0, subcon |-> subcon,
     modulus |-> modulus, pattern |-> pattern]

\* stream_reader / stream_writer name the wrapper class; resizer is
\* lambda size: size / resizer.div
Restream(subcon, stream_reader, stream_writer, resizer) ==
    [k |-> "Restream", name |-> subcon.name, conflags |-> subcon.conflags, subcon |-> subcon,
     stream_reader |-> stream_reader, stream_writer |-> stream_writer, resizer |-> resizer]

Const(subcon, value) ==
    [k |-> "Const", name |-> subcon.name, conflags |-> 0, subcon |-> subcon, value |-> value]

CString(name, terminators) ==
    [k |-> "CString", name |-> name, conflags |-> 0, terminators |-> terminators]

String(name, length, padchar, paddir, trimdir) ==
    [k |-> "String", name |-> name, conflags |-> 0, length |-> length, padchar |-> padchar,
     paddir |-> paddir, trimdir |-> trimdir]

VarInt(name) == [k |-> "VarInt", name |-> name, conflags |-> 0]

Checksum(checksumfield, anchors) ==
    [k |-> "Checksum", name |-> checksumfield.name, conflags |-> 0,
     checksumfield |-> checksumfield, anchors |-> anchors]

Prefixed(lengthfield, subcon) ==
    [k |-> "Prefixed", name |-> subcon.name, conflags |-> subcon.conflags,
     lengthfield |-> lengthfield, subcon |-> subcon]

Pointer(offsetfunc, subcon) ==
    [k |-> "Pointer", name |-> subcon.name, conflags |-> subcon.conflags,
     offsetfunc |-> offsetfunc, subcon |-> subcon]

\* Switch.NoDefault: the case taken when no key matches and no default is given
NoDefault == [k |-> "NoDefault", name |-> "No default value specified", conflags |-> 0]

\* a case of a Switch: cases is the sequence of the dictionary's items
Case(key, con) == [key |-> key, con |-> con]

Switch(name, keyfunc, cases, default, include_key) ==
    [k |-> "Switch", name |-> name,
     conflags |-> set_flag(inherit_flags(0, [i \in DOMAIN cases |-> cases[i].con]),
                           FLAG_DYNAMIC),
     keyfunc |-> keyfunc, cases |-> cases, default |-> default, include_key |-> include_key]

\* bindfunc is the catalogue name of the construct the thunk returns
LazyBound(name, bindfunc) ==
    [k |-> "LazyBound", name |-> name, conflags |-> 0, bindfunc |-> bindfunc]

(***************************************************************************)
(* parse, build and sizeof.  Parse(c, m) is c._parse(stream, context) on   *)
(* the machine m, Build(c, o, m) is c._build(o, stream, context), and      *)
(* Sizeof(c, context) is c._sizeof(context).                               *)
(***************************************************************************)
RECURSIVE Parse(_, _), Build(_, _, _), Sizeof(_, _)

SizeOk(n) == [err |-> NoError, n |-> n]
SizeRaise(e) == [err |-> e, n |-> 0]

\* ---- StaticField
StaticField_parse(c, m) == read_stream(m, c.length)

\* int2byte(obj) if isinstance(obj, int) else obj
StaticField_build(c, o, m) ==
    IF o.k = "int"
    THEN IF o.v \in 0..255 THEN write_stream(m, c.length, PyBytes(<<o.v>>))
         ELSE Raise("ValueError", m)
    ELSE write_stream(m, c.length, o)

StaticField_sizeof(c, context) == SizeOk(c.length)

\* ---- FormatField (unsigned formats)
RECURSIVE Unpack(_, _)
\* packer.unpack: the integer the bytes encode
Unpack(b, endianity) ==
    IF b = <<>> THEN 0
    ELSE IF endianity = "<" THEN Head(b) + 256 * Unpack(Tail(b), endianity)
    ELSE b[Len(b)] + 256 * Unpack(SubSeq(b, 1, Len(b) - 1), endianity)

\* packer.pack: the bytes of an integer in range
Pack(n, length, endianity) ==
    [i \in 1..length |->
        IF endianity = "<" THEN (n \div Pow(256, i - 1)) % 256
        ELSE (n \div Pow(256, length - i)) % 256]

FormatField_parse(c, m) ==
    LET r == read_stream(m, c.length)
    IN  IF r.err # NoError THEN Raise("FieldError", r.m)
        ELSE Ok(PyInt(Unpack(r.val.v, c.endianity)), r.m)

FormatField_build(c, o, m) ==
    IF o.k # "int" THEN Raise("FieldError", m)
    ELSE IF o.v < 0 \/ o.v >= Pow(256, c.length) THEN Raise("FieldError", m)
    ELSE write_stream(m, c.length, PyBytes(Pack(o.v, c.length, c.endianity)))

\* ---- MetaField
MetaField_parse(c, m) ==
    LET n == Call(c.lengthfunc, m.ctx)
    IN  IF n.err # NoError THEN Raise(n.err, m) ELSE read_stream(m, n.val.v)

MetaField_build(c, o, m) ==
    LET n == Call(c.lengthfunc, m.ctx)
    IN  IF n.err # NoError THEN Raise(n.err, m) ELSE write_stream(m, n.val.v, o)

MetaField_sizeof(c, context) ==
    LET n == Call(c.lengthfunc, context)
    IN  IF n.err # NoError THEN SizeRaise(n.err) ELSE SizeOk(n.val.v)

\* ---- VarInt
RECURSIVE VarInt_parse_loop(_, _)
\* while True: b = ord(read 1); acc = (acc << 7) | (b & 127); if not b & 128: break
VarInt_parse_loop(m, acc) ==
    LET r == read_stream(m, 1)
    IN  IF r.err # NoError THEN r
        ELSE LET b == r.val.v[1]
                 acc2 == acc * 128 + (b % 128)
             IN  IF b < 128 THEN Ok(PyInt(acc2), r.m) ELSE VarInt_parse_loop(r.m, acc2)

VarInt_parse(c, m) == VarInt_parse_loop(m, 0)

RECURSIVE VarInt_build_loop(_, _)
\* while obj > 127: write 128 | (obj & 127); obj >>= 7.  Then write obj.
VarInt_build_loop(n, m) ==
    IF n > 127
    THEN LET w == write_stream(m, 1, PyBytes(<<128 + (n % 128)>>))
         IN  VarInt_build_loop(n \div 128, w.m)
    ELSE write_stream(m, 1, PyBytes(<<n>>))

VarInt_build(c, o, m) ==
    IF o.k # "int" THEN Raise("TypeError", m)
    ELSE IF o.v < 0 THEN Raise("ValueError", m)
    ELSE VarInt_build_loop(o.v, m)

\* ---- Padding (length an integer)
Padding_parse(c, m) ==
    LET r == read_stream(m, c.length)
    IN  IF r.err # NoError THEN r
        ELSE IF c.strict /\ r.val.v # [i \in 1..c.length |-> c.pattern]
        THEN Raise("PaddingError", r.m)
        ELSE Ok(None, r.m)

Padding_build(c, o, m) ==
    write_stream(m, c.length, PyBytes([i \in 1..c.length |-> c.pattern]))

Padding_sizeof(c, context) == SizeOk(c.length)

\* ---- String (no encoding, length an integer)
RECURSIVE rstrip(_, _), lstrip(_, _)
rstrip(b, padchar) ==
    IF b # <<>> /\ b[Len(b)] = padchar THEN rstrip(SubSeq(b, 1, Len(b) - 1), padchar) ELSE b
lstrip(b, padchar) ==
    IF b # <<>> /\ Head(b) = padchar THEN lstrip(Tail(b), padchar) ELSE b

Fill(n, padchar) == [i \in 1..Max2(0, n) |-> padchar]
\* bytes.ljust filling on the wrong side
ljust_left(b, width, padchar) == Fill(width - Len(b), padchar) \o b
ljust(b, width, padchar) == b \o Fill(width - Len(b), padchar)
rjust(b, width, padchar) == Fill(width - Len(b), padchar) \o b
\* bytes.center: the odd byte goes left when the width is odd too
center(b, width, padchar) ==
    LET marg == width - Len(b)
        left == (marg \div 2) + (IF marg % 2 = 1 /\ width % 2 = 1 THEN 1 ELSE 0)
    IN  IF marg <= 0 THEN b ELSE Fill(left, padchar) \o b \o Fill(marg - left, padchar)

String_parse(c, m) ==
    LET r == read_stream(m, c.length)
    IN  IF r.err # NoError THEN r
        ELSE Ok(PyBytes(CASE c.paddir = "right" -> rstrip(r.val.v, c.padchar)
                          [] c.paddir = "left" -> lstrip(r.val.v, c.padchar)
                          [] OTHER -> lstrip(rstrip(r.val.v, c.padchar), c.padchar)), r.m)

String_build(c, o, m) ==
    IF o.k # "bytes" THEN Raise("StringError", m)
    ELSE LET padded == CASE c.paddir = "right" -> ljust(o.v, c.length, c.padchar)
                         [] c.paddir = "left" -> rjust(o.v, c.length, c.padchar)
                         [] OTHER -> center(o.v, c.length, c.padchar)
             n == Len(padded)
             trimmed == IF n > c.length
                        THEN IF c.trimdir = "right" THEN SubSeq(padded, 1, c.length)
                             ELSE SubSeq(padded, n - c.length + 1, n)
                        ELSE padded
         IN  write_stream(m, c.length, PyBytes(trimmed))

String_sizeof(c, context) == SizeOk(c.length)

\* ---- CString (no encoding)
RECURSIVE CString_parse_loop(_, _, _)
CString_parse_loop(c, acc, m) ==
    LET char == read_stream(m, 1)
    IN  IF char.err # NoError THEN char
        ELSE IF char.val.v[1] \in Range1(c.terminators) THEN Ok(PyBytes(acc), char.m)
        ELSE CString_parse_loop(c, acc \o char.val.v, char.m)

CString_parse(c, m) == CString_parse_loop(c, <<>>, m)

\* CString._build without `obj += self.terminators[:1]`
CString_build_noterm(c, o, m) ==
    IF o.k # "bytes" THEN Raise("StringError", m)
    ELSE write_stream(m, Len(o.v), o)

CString_build(c, o, m) ==
    IF o.k # "bytes" THEN Raise("StringError", m)
    ELSE LET b == o.v \o SubSeq(c.terminators, 1, 1)
         IN  write_stream(m, Len(b), PyBytes(b))

CString_sizeof(c, context) == SizeRaise("SizeofError")

\* ---- Const
Const_parse(c, m) ==
    LET r == Parse(c.subcon, m)
    IN  IF r.err # NoError THEN r
        ELSE IF ~ValEq(r.val, c.value) THEN Raise("ConstError", r.m)
        ELSE r

Const_build(c, o, m) == Build(c.subcon, c.value, m)

Const_sizeof(c, context) == Sizeof(c.subcon, context)

\* ---- Anchor
Anchor_parse(c, m) ==
    Ok(PyInt(m.pos), [m EXCEPT !.ctx = Set(m.ctx, c.name, PyInt(m.pos))])

Anchor_build(c, o, m) ==
    Ok(None, [m EXCEPT !.ctx = Set(m.ctx, c.name, PyInt(m.pos))])

\* ---- AnchorRange
\* Container(offset1=offset1)(offset2=offset2)(length=offset2-offset1)
RangeRecord(offset1, offset2) ==
    Set(Set(Set(Container, "offset1", offset1), "offset2", offset2),
        "length", PyInt(offset2.v - offset1.v))

AnchorRange_parse(c, m) ==
    IF ~Has(m.ctx, c.name)
    THEN Ok(PyInt(m.pos), [m EXCEPT !.ctx = Set(m.ctx, c.name, PyInt(m.pos))])
    ELSE LET o == RangeRecord(Get(m.ctx, c.name), PyInt(m.pos))
         IN  Ok(o, [m EXCEPT !.ctx = Set(m.ctx, c.name, o)])

AnchorRange_build(c, o, m) ==
    IF ~Has(m.ctx, c.name)
    THEN Ok(None, [m EXCEPT !.ctx = Set(m.ctx, c.name, PyInt(m.pos))])
    ELSE Ok(None, [m EXCEPT !.ctx = Set(m.ctx, c.name,
                                        RangeRecord(Get(m.ctx, c.name), PyInt(m.pos)))])

\* ---- Computed
Computed_parse(c, m) ==
    LET f == Call(c.func, m.ctx)
    IN  IF f.err # NoError THEN Raise(f.err, m) ELSE Ok(f.val, m)

Computed_build(c, o, m) ==
    LET f == Call(c.func, m.ctx)
    IN  IF f.err # NoError THEN Raise(f.err, m)
        ELSE Ok(None, [m EXCEPT !.ctx = Set(m.ctx, c.name, f.val)])

\* ---- Pass, Terminator
Pass_parse(c, m) == Ok(None, m)

Pass_build(c, o, m) == IF o.k = "none" THEN Ok(None, m) ELSE Raise("AssertionError", m)

Terminator_parse(c, m) ==
    LET r == StreamRead(m, 1)
    IN  IF r.bytes # <<>> THEN Raise("TerminatorError", r.m) ELSE Ok(None, r.m)

\* Container.__copy__: a shallow copy
container_copy(c) == c

RECURSIVE container_update_loop(_, _, _)
container_update_loop(c, other, i) ==
    IF i > Len(other.keys) THEN c
    ELSE container_update_loop(Set(c, other.keys[i], Get(other, other.keys[i])), other, i + 1)

\* Container.__update__ / update: every key of other is set in c
container_update(c, other) == container_update_loop(c, other, 1)

\* construct.build(obj, context): build into a fresh BytesIO, return its bytes
BuildBytes(c, o, m) ==
    LET r == Build(c, o, [m EXCEPT !.data = <<>>, !.pos = 0])
    IN  [err |-> r.err, bytes |-> r.m.data,
         m |-> [m EXCEPT !.ctx = r.m.ctx, !.eobj = r.m.eobj, !.wrappers = r.m.wrappers]]

\* construct.parse(data, context): parse a fresh BytesIO over data
ParseBytes(c, b, m) ==
    LET r == Parse(c, [m EXCEPT !.data = b, !.pos = 0])
    IN  [err |-> r.err, val |-> r.val,
         m |-> [m EXCEPT !.ctx = r.m.ctx, !.eobj = r.m.eobj, !.wrappers = r.m.wrappers]]

\* the machine a sub is handed by a repeater: a copy of the context when the
\* sub carries FLAG_COPY_CONTEXT, so that its writes are dropped afterwards
AfterSub(subcon, before, after) ==
    IF is_flag(subcon.conflags, FLAG_COPY_CONTEXT) THEN [after EXCEPT !.ctx = before.ctx]
    ELSE after

\* ---- MetaArray
RECURSIVE MetaArray_parse_loop(_, _, _, _)
MetaArray_parse_loop(c, count, items, m) ==
    IF Len(items) >= count THEN Ok(PyList(items), m)
    ELSE LET r == Parse(c.subcon, m)
             m2 == AfterSub(c.subcon, m, r.m)
         IN  IF r.err \in ConstructError THEN Raise("ArrayError", m2)
             ELSE IF r.err # NoError THEN Raise(r.err, m2)
             ELSE MetaArray_parse_loop(c, count, Append(items, r.val), m2)

MetaArray_parse(c, m) ==
    LET n == Call(c.countfunc, m.ctx)
    IN  IF n.err # NoError THEN Raise(n.err, m)
        ELSE MetaArray_parse_loop(c, n.val.v, <<>>, m)

RECURSIVE MetaArray_build_loop(_, _, _, _)
MetaArray_build_loop(c, items, i, m) ==
    IF i > Len(items) THEN Ok(None, m)
    ELSE LET r == Build(c.subcon, items[i], m)
             m2 == AfterSub(c.subcon, m, r.m)
         IN  IF r.err # NoError THEN Raise(r.err, m2)
             ELSE MetaArray_build_loop(c, items, i + 1, m2)

\* MetaArray._build without the comparison of len(obj) with the count
MetaArray_build_nocheck(c, o, m) ==
    LET n == Call(c.countfunc, m.ctx)
    IN  IF n.err # NoError THEN Raise(n.err, m)
        ELSE IF o.k # "list" THEN Raise("TypeError", m)
        ELSE MetaArray_build_loop(c, o.v, 1, m)

MetaArray_build(c, o, m) ==
    LET n == Call(c.countfunc, m.ctx)
    IN  IF n.err # NoError THEN Raise(n.err, m)
        ELSE IF o.k # "list" THEN Raise("TypeError", m)
        ELSE IF Len(o.v) # n.val.v THEN Raise("ArrayError", m)
        ELSE MetaArray_build_loop(c, o.v, 1, m)

MetaArray_sizeof(c, context) ==
    LET s == Sizeof(c.subcon, context)
        n == Call(c.countfunc, context)
    IN  IF s.err # NoError THEN s
        ELSE IF n.err # NoError THEN SizeRaise(n.err)
        ELSE SizeOk(s.n * n.val.v)

\* ---- Range
RECURSIVE Range_parse_loop(_, _, _)
\* while c < maxcount: pos = tell(); append(sub parse); c += 1
\* except ConstructError: raise RangeError if c < mincount, else seek(pos)
Range_parse_loop(c, items, m) ==
    IF Len(items) >= c.maxcount THEN Ok(PyList(items), m)
    ELSE LET r == Parse(c.subcon, m)
             m2 == AfterSub(c.subcon, m, r.m)
         IN  IF r.err \in ConstructError
             THEN IF Len(items) < c.mincount THEN Raise("RangeError", m2)
                  ELSE Ok(PyList(items), StreamSeek(m2, m.pos))
             ELSE IF r.err # NoError THEN Raise(r.err, m2)
             ELSE Range_parse_loop(c, Append(items, r.val), m2)

Range_parse(c, m) == Range_parse_loop(c, <<>>, m)

\* ---- RepeatUntil
\* self.predicate(subobj, context)
Predicate(fn, o, context) == ValEq(o, fn.value)

\* RepeatUntil._parse testing the predicate before the item is appended
RECURSIVE RepeatUntil_parse_loop_excl(_, _, _)
RepeatUntil_parse_loop_excl(c, items, m) ==
    LET r == Parse(c.subcon, m)
        m2 == AfterSub(c.subcon, m, r.m)
    IN  IF r.err \in ConstructError THEN Raise("ArrayError", m2)
        ELSE IF r.err # NoError THEN Raise(r.err, m2)
        ELSE IF Predicate(c.predicate, r.val, m2.ctx) THEN Ok(PyList(items), m2)
        ELSE RepeatUntil_parse_loop_excl(c, Append(items, r.val), m2)

RECURSIVE RepeatUntil_parse_loop(_, _, _)
RepeatUntil_parse_loop(c, items, m) ==
    LET r == Parse(c.subcon, m)
        m2 == AfterSub(c.subcon, m, r.m)
    IN  IF r.err \in ConstructError THEN Raise("ArrayError", m2)
        ELSE IF r.err # NoError THEN Raise(r.err, m2)
        ELSE IF Predicate(c.predicate, r.val, m2.ctx)
             THEN Ok(PyList(Append(items, r.val)), m2)
        ELSE RepeatUntil_parse_loop(c, Append(items, r.val), m2)

RepeatUntil_parse(c, m) == RepeatUntil_parse_loop(c, <<>>, m)

\* both branches hand the sub a copy of the context
RECURSIVE RepeatUntil_build_loop(_, _, _, _)
RepeatUntil_build_loop(c, items, i, m) ==
    IF i > Len(items) THEN Raise("ArrayError", m)
    ELSE LET r == Build(c.subcon, items[i], m)
             m2 == [r.m EXCEPT !.ctx = m.ctx]
         IN  IF r.err # NoError THEN Raise(r.err, m2)
             ELSE IF Predicate(c.predicate, items[i], m2.ctx) THEN Ok(None, m2)
             ELSE RepeatUntil_build_loop(c, items, i + 1, m2)

RepeatUntil_build(c, o, m) ==
    IF o.k # "list" THEN Raise("TypeError", m)
    ELSE RepeatUntil_build_loop(c, o.v, 1, m)

RepeatUntil_sizeof(c, context) == SizeRaise("SizeofError")

RECURSIVE Range_build_loop(_, _, _, _)
\* for subobj in obj: sub build; cnt += 1
\* except ConstructError: raise RangeError if cnt < mincount (else return)
Range_build_loop(c, items, i, m) ==
    IF i > Len(items) THEN Ok(None, m)
    ELSE LET r == Build(c.subcon, items[i], m)
             m2 == AfterSub(c.subcon, m, r.m)
         IN  IF r.err \in ConstructError
             THEN IF i - 1 < c.mincount THEN Raise("RangeError", m2) ELSE Ok(None, m2)
             ELSE IF r.err # NoError THEN Raise(r.err, m2)
             ELSE Range_build_loop(c, items, i + 1, m2)

\* Range._build without the check of len(obj) against mincount and maxcount
Range_build_anylength(c, o, m) ==
    IF o.k # "list" THEN Raise("RangeError", m)
    ELSE Range_build_loop(c, o.v, 1, m)

Range_build(c, o, m) ==
    IF o.k # "list" THEN Raise("RangeError", m)
    ELSE IF Len(o.v) < c.mincount \/ Len(o.v) > c.maxcount THEN Raise("RangeError", m)
    ELSE Range_build_loop(c, o.v, 1, m)

Range_sizeof(c, context) == SizeRaise("SizeofError")

\* ---- Struct
\* what Struct._parse / _build starts from: the container and the working context
Struct_parse_enter(c, m) ==
    IF Has(m.ctx, "<obj>")
    THEN [obj |-> m.eobj, m |-> [m EXCEPT !.ctx = Del(m.ctx, "<obj>")]]
    ELSE [obj |-> Container,
          m |-> IF c.nested THEN [m EXCEPT !.ctx = Nested(m.ctx)] ELSE m]

\* Struct._parse's loop body without `context["<obj>"] = obj`: an embedded
\* sub is not told which container to fill
Struct_parse_before_noobj(sc, o, m) == m

\* Struct._parse's loop body for the sub sc, before the sub runs: an embedded
\* sub is handed the struct's container under "<obj>"
Struct_parse_before(sc, o, m) ==
    IF is_flag(sc.conflags, FLAG_EMBED)
    THEN [m EXCEPT !.ctx = Set(m.ctx, "<obj>", o), !.eobj = o]
    ELSE m

\* Struct._parse's loop body without `context[sc.name] = subobj`: the value
\* of a named sub is stored in the container only
Struct_parse_after_nocontext(c, sc, o, r) ==
    IF is_flag(sc.conflags, FLAG_EMBED)
    THEN LET o2 == IF Has(r.m.ctx, "<obj>") THEN o ELSE r.m.eobj
         IN  IF r.err # NoError THEN [err |-> r.err, obj |-> o2, m |-> r.m]
             ELSE [err |-> NoError, obj |-> o2,
                   m |-> IF Has(r.m.ctx, "<obj>")
                         THEN [r.m EXCEPT !.ctx = Del(r.m.ctx, "<obj>")] ELSE r.m]
    ELSE IF r.err # NoError THEN [err |-> r.err, obj |-> o, m |-> r.m]
    ELSE IF sc.name = NoName THEN [err |-> NoError, obj |-> o, m |-> r.m]
    ELSE IF Has(o, sc.name) /\ ~c.allow_overwrite
    THEN [err |-> "OverwriteError", obj |-> o, m |-> r.m]
    ELSE [err |-> NoError, obj |-> Set(o, sc.name, r.val), m |-> r.m]

\* Struct._parse's loop body without the allow_overwrite test: a name that is
\* already a key is overwritten whatever the option says
Struct_parse_after_nocheck(c, sc, o, r) ==
    IF is_flag(sc.conflags, FLAG_EMBED)
    THEN LET o2 == IF Has(r.m.ctx, "<obj>") THEN o ELSE r.m.eobj
         IN  IF r.err # NoError THEN [err |-> r.err, obj |-> o2, m |-> r.m]
             ELSE [err |-> NoError, obj |-> o2,
                   m |-> IF Has(r.m.ctx, "<obj>")
                         THEN [r.m EXCEPT !.ctx = Del(r.m.ctx, "<obj>")] ELSE r.m]
    ELSE IF r.err # NoError THEN [err |-> r.err, obj |-> o, m |-> r.m]
    ELSE IF sc.name = NoName THEN [err |-> NoError, obj |-> o, m |-> r.m]
    ELSE [err |-> NoError, obj |-> Set(o, sc.name, r.val),
          m |-> [r.m EXCEPT !.ctx = Set(r.m.ctx, sc.name, r.val)]]

\* ... and after the sub returned r: drop a left-over "<obj>", or store the
\* value of a named sub in the container and in the context
Struct_parse_after(c, sc, o, r) ==
    IF is_flag(sc.conflags, FLAG_EMBED)
    THEN LET o2 == IF Has(r.m.ctx, "<obj>") THEN o ELSE r.m.eobj
         IN  IF r.err # NoError THEN [err |-> r.err, obj |-> o2, m |-> r.m]
             ELSE [err |-> NoError, obj |-> o2,
                   m |-> IF Has(r.m.ctx, "<obj>")
                         THEN [r.m EXCEPT !.ctx = Del(r.m.ctx, "<obj>")] ELSE r.m]
    ELSE IF r.err # NoError THEN [err |-> r.err, obj |-> o, m |-> r.m]
    ELSE IF sc.name = NoName THEN [err |-> NoError, obj |-> o, m |-> r.m]
    ELSE IF Has(o, sc.name) /\ ~c.allow_overwrite
    THEN [err |-> "OverwriteError", obj |-> o, m |-> r.m]
    ELSE [err |-> NoError, obj |-> Set(o, sc.name, r.val),
          m |-> [r.m EXCEPT !.ctx = Set(r.m.ctx, sc.name, r.val)]]

\* the whole body of the loop for the sub sc
Struct_parse_sub(c, sc, o, m) ==
    Struct_parse_after(c, sc, o, Parse(sc, Struct_parse_before(sc, o, m)))

RECURSIVE Struct_parse_loop(_, _, _, _)
Struct_parse_loop(c, i, o, m) ==
    IF i > Len(c.subcons) THEN [err |-> NoError, obj |-> o, m |-> m]
    ELSE LET s == Struct_parse_sub(c, c.subcons[i], o, m)
         IN  IF s.err # NoError THEN s ELSE Struct_parse_loop(c, i + 1, s.obj, s.m)

\* what the caller sees once the struct is left: its own context object (the
\* struct's scope is dropped) and, through "<obj>", the container filled
Struct_leave(c, m, entered_embedded, s) ==
    [s.m EXCEPT !.ctx = IF ~entered_embedded /\ c.nested THEN m.ctx ELSE s.m.ctx,
                !.eobj = IF entered_embedded THEN s.obj ELSE m.eobj]

Struct_parse(c, m) ==
    LET e == Struct_parse_enter(c, m)
        s == Struct_parse_loop(c, 1, e.obj, e.m)
        m2 == Struct_leave(c, m, Has(m.ctx, "<obj>"), s)
    IN  IF s.err # NoError THEN Raise(s.err, m2) ELSE Ok(s.obj, m2)

Struct_build_enter(c, m) ==
    IF Has(m.ctx, "<unnested>") THEN [m EXCEPT !.ctx = Del(m.ctx, "<unnested>")]
    ELSE IF c.nested THEN [m EXCEPT !.ctx = Nested(m.ctx)]
    ELSE m

\* the first half of Struct._build's loop body for the sub sc: choose the
\* object the sub builds from, binding an ordinary named sub's value in the context
Struct_build_bind(c, sc, o, m) ==
    IF is_flag(sc.conflags, FLAG_EMBED)
    THEN Ok(o, [m EXCEPT !.ctx = Set(m.ctx, "<unnested>", PyBool(TRUE))])
    ELSE IF sc.name = NoName THEN Ok(None, m)
    ELSE IF sc.k \in {"Computed", "Anchor", "AnchorRange", "Checksum"} THEN Ok(None, m)
    ELSE IF o.k # "con" THEN Raise("TypeError", m)
    ELSE IF ~Has(o, sc.name) THEN Raise("KeyError", m)
    ELSE Ok(Get(o, sc.name), [m EXCEPT !.ctx = Set(m.ctx, sc.name, Get(o, sc.name))])

\* the whole body: bind, then sc._build(subobj, stream, context)
Struct_build_sub(c, sc, o, m) ==
    LET b == Struct_build_bind(c, sc, o, m)
    IN  IF b.err # NoError THEN b ELSE Build(sc, b.val, b.m)

RECURSIVE Struct_build_loop(_, _, _, _)
Struct_build_loop(c, i, o, m) ==
    IF i > Len(c.subcons) THEN Ok(None, m)
    ELSE LET r == Struct_build_sub(c, c.subcons[i], o, m)
         IN  IF r.err # NoError THEN r ELSE Struct_build_loop(c, i + 1, o, r.m)

Struct_build(c, o, m) ==
    LET r == Struct_build_loop(c, 1, o, Struct_build_enter(c, m))
        m2 == [r.m EXCEPT !.ctx = IF ~Has(m.ctx, "<unnested>") /\ c.nested
                                  THEN m.ctx ELSE r.m.ctx]
    IN  [r EXCEPT !.m = m2]

RECURSIVE Struct_sizeof_loop(_, _, _)
Struct_sizeof_loop(c, i, context) ==
    IF i > Len(c.subcons) THEN SizeOk(0)
    ELSE LET s == Sizeof(c.subcons[i], context)
             rest == Struct_sizeof_loop(c, i + 1, context)
         IN  IF s.err # NoError THEN s
             ELSE IF rest.err # NoError THEN rest
             ELSE SizeOk(s.n + rest.n)

Struct_sizeof(c, context) == Struct_sizeof_loop(c, 1, context)

\* ---- Peek
\* Peek._parse without the `finally: stream.seek(pos)`
Peek_parse_noseek(c, m) ==
    LET r == Parse(c.subcon, m)
    IN  IF r.err = NoError THEN Ok(r.val, r.m)
        ELSE IF r.err = "FieldError" THEN Ok(None, r.m)
        ELSE Raise(r.err, r.m)

\* try: return sub parse; except FieldError: pass; finally: seek(pos)
Peek_parse(c, m) ==
    LET r == Parse(c.subcon, m)
        back == StreamSeek(r.m, m.pos)
    IN  IF r.err = NoError THEN Ok(r.val, back)
        ELSE IF r.err = "FieldError" THEN Ok(None, back)
        ELSE Raise(r.err, back)

\* if performbuild: try: sub build; except: seek(pos); raise
Peek_build(c, o, m) ==
    IF ~c.performbuild THEN Ok(None, m)
    ELSE LET r == Build(c.subcon, o, m)
         IN  IF r.err # NoError THEN Raise(r.err, StreamSeek(r.m, m.pos)) ELSE r

Peek_sizeof(c, context) == Sizeof(c.subcon, context)

\* ---- Union
\* _updcon: merge an embedded sub's container, or store under the sub's name
updcon(con, sc, o) ==
    IF is_flag(sc.conflags, FLAG_EMBED) THEN container_update(con, o)
    ELSE Set(con, sc.name, o)

RECURSIVE Union_parse_loop(_, _, _, _)
Union_parse_loop(c, i, con, m) ==
    IF i > Len(c.subcons) THEN Ok(con, m)
    ELSE LET r == Parse(c.subcons[i], m)
         IN  IF r.err # NoError THEN r
             ELSE IF is_flag(c.subcons[i].conflags, FLAG_EMBED) /\ r.val.k # "con"
             THEN Raise("TypeError", r.m)
             ELSE Union_parse_loop(c, i + 1, updcon(con, c.subcons[i], r.val), r.m)

Union_parse(c, m) == Union_parse_loop(c, 1, Container, m)

\* _subobj: the part of obj the sub builds from
subobj(sc, o) ==
    IF is_flag(sc.conflags, FLAG_EMBED) THEN [err |-> NoError, val |-> o]
    ELSE IF o.k # "con" THEN [err |-> "TypeError", val |-> None]
    ELSE IF ~Has(o, sc.name) THEN [err |-> "KeyError", val |-> None]
    ELSE [err |-> NoError, val |-> Get(o, sc.name)]

\* the loop of Union._build without the `except Exception: pass`
Union_build_loop_nocatch(c, i, o, m) ==
    LET so == subobj(c.subcons[i], o)
        b == BuildBytes(c.subcons[i], so.val, m)
    IN  IF so.err # NoError THEN Raise(so.err, m)
        ELSE IF b.err # NoError THEN Raise(b.err, m)
        ELSE Ok(None, StreamWrite([m EXCEPT !.ctx = b.m.ctx, !.eobj = b.m.eobj], b.bytes))

RECURSIVE Union_build_loop(_, _, _, _)
\* for sc in subcons: try: data = sc.build(_subobj(sc, obj), context)
\* except Exception: pass; else: stream.write(data); break.  else: SelectError
Union_build_loop(c, i, o, m) ==
    IF i > Len(c.subcons) THEN Raise("SelectError", m)
    ELSE LET so == subobj(c.subcons[i], o)
             b == BuildBytes(c.subcons[i], so.val, m)
         IN  IF so.err # NoError THEN Union_build_loop(c, i + 1, o, m)
             ELSE IF b.err # NoError
             THEN Union_build_loop(c, i + 1, o, [m EXCEPT !.ctx = b.m.ctx, !.eobj = b.m.eobj])
             ELSE Ok(None, StreamWrite([m EXCEPT !.ctx = b.m.ctx, !.eobj = b.m.eobj], b.bytes))

Union_build(c, o, m) ==
    IF c.buildfrom.k = "int"
    THEN LET sc == c.subcons[c.buildfrom.v + 1]
             so == subobj(sc, o)
         IN  IF so.err # NoError THEN Raise(so.err, m) ELSE Build(sc, so.val, m)
    ELSE IF c.buildfrom.k = "str"
    THEN LET found == {i \in DOMAIN c.subcons : c.subcons[i].name = c.buildfrom.v}
             sc == c.subcons[CHOOSE i \in found : \A j \in found : i <= j]
             so == subobj(sc, o)
         IN  IF found = {} THEN Raise("StopIteration", m)
             ELSE IF so.err # NoError THEN Raise(so.err, m) ELSE Build(sc, so.val, m)
    ELSE IF c.buildfrom.k # "none" THEN Raise("TypeError", m)
    ELSE Union_build_loop(c, 1, o, m)

RECURSIVE Union_sizeof_loop(_, _, _)
\* max([sc._sizeof(context) for sc in subcons])
Union_sizeof_loop(c, i, context) ==
    LET s == Sizeof(c.subcons[i], context)
        rest == Union_sizeof_loop(c, i + 1, context)
    IN  IF s.err # NoError \/ i = Len(c.subcons) THEN s
        ELSE IF rest.err # NoError THEN rest
        ELSE SizeOk(Max2(s.n, rest.n))

Union_sizeof(c, context) ==
    IF c.subcons = <<>> THEN SizeRaise("ValueError") ELSE Union_sizeof_loop(c, 1, context)

\* ---- Select
\* Select._parse handing each sub the caller's context, not a copy of it
RECURSIVE Select_parse_loop_nocopy(_, _, _)
Select_parse_loop_nocopy(c, i, m) ==
    IF i > Len(c.subcons) THEN Raise("SelectError", m)
    ELSE LET sc == c.subcons[i]
             r == Parse(sc, m)
         IN  IF r.err \in ConstructError
             THEN Select_parse_loop_nocopy(c, i + 1, StreamSeek(r.m, m.pos))
             ELSE IF r.err # NoError THEN Raise(r.err, r.m)
             ELSE Ok(IF c.include_name THEN PyTuple(<<sc.name, r.val>>) ELSE r.val, r.m)

RECURSIVE Select_parse_loop(_, _, _)
\* Select._parse without `stream.seek(fallback)`: the next sub starts where
\* the failed one stopped
Select_parse_noseek(c, i, m) ==
    IF i > Len(c.subcons) THEN Raise("SelectError", m)
    ELSE LET sc == c.subcons[i]
             r == Parse(sc, [m EXCEPT !.ctx = container_copy(m.ctx)])
             mine == [r.m EXCEPT !.ctx = m.ctx]
         IN  IF r.err \in ConstructError THEN Select_parse_loop(c, i + 1, mine)
             ELSE IF r.err # NoError THEN Raise(r.err, mine)
             ELSE Ok(IF c.include_name THEN PyTuple(<<sc.name, r.val>>) ELSE r.val,
                     [r.m EXCEPT !.ctx = container_update(m.ctx, r.m.ctx)])

\* for sc in subcons: fallback = tell(); context2 = context.__copy__()
\*   try: obj = sc._parse(stream, context2)
\*   except ConstructError: seek(fallback)
\*   else: context.__update__(context2); return obj
\* raise SelectError
Select_parse_loop(c, i, m) ==
    IF i > Len(c.subcons) THEN Raise("SelectError", m)
    ELSE LET sc == c.subcons[i]
             r == Parse(sc, [m EXCEPT !.ctx = container_copy(m.ctx)])
             mine == [r.m EXCEPT !.ctx = m.ctx]
         IN  IF r.err \in ConstructError
             THEN Select_parse_loop(c, i + 1, StreamSeek(mine, m.pos))
             ELSE IF r.err # NoError THEN Raise(r.err, mine)
             ELSE Ok(IF c.include_name THEN PyTuple(<<sc.name, r.val>>) ELSE r.val,
                     [r.m EXCEPT !.ctx = container_update(m.ctx, r.m.ctx)])

Select_parse(c, m) == Select_parse_loop(c, 1, m)

RECURSIVE Select_build_loop(_, _, _, _)
Select_build_loop(c, i, o, m) ==
    IF i > Len(c.subcons) THEN Raise("SelectError", m)
    ELSE LET b == BuildBytes(c.subcons[i], o, [m EXCEPT !.ctx = container_copy(m.ctx)])
         IN  IF b.err # NoError THEN Select_build_loop(c, i + 1, o, [m EXCEPT !.eobj = b.m.eobj])
             ELSE Ok(None, StreamWrite([m EXCEPT !.ctx = container_update(m.ctx, b.m.ctx),
                                                 !.eobj = b.m.eobj], b.bytes))

RECURSIVE Select_build_named(_, _, _, _, _)
Select_build_named(c, i, name, o, m) ==
    IF i > Len(c.subcons) THEN Raise("SelectError", m)
    ELSE IF c.subcons[i].name = name THEN Build(c.subcons[i], o, m)
    ELSE Select_build_named(c, i + 1, name, o, m)

Select_build(c, o, m) ==
    IF c.include_name
    THEN IF o.k # "tuple" THEN Raise("TypeError", m)
         ELSE Select_build_named(c, 1, o.v[1], o.v[2], m)
    ELSE Select_build_loop(c, 1, o, m)

\* ---- Aligned
Aligned_parse(c, m) ==
    LET r == Parse(c.subcon, m)
        pad == (-(r.m.pos - m.pos)) % c.modulus
        p == read_stream(r.m, pad)
    IN  IF r.err # NoError THEN r
        ELSE IF p.err # NoError THEN p
        ELSE Ok(r.val, p.m)

Aligned_build(c, o, m) ==
    LET r == Build(c.subcon, o, m)
        pad == (-(r.m.pos - m.pos)) % c.modulus
    IN  IF r.err # NoError THEN r
        ELSE write_stream(r.m, pad, PyBytes([i \in 1..pad |-> c.pattern]))

Aligned_sizeof(c, context) == Sizeof(c.subcon, context)

\* ---- Restream
\* the wrapper class the catalogue uses: read, write and tell go to the
\* underlying stream unchanged, and close() marks the wrapper closed
StreamTap(m) == [m EXCEPT !.wrappers = Append(@, "open")]
StreamTap_close(m, i) == [m EXCEPT !.wrappers[i] = "closed"]

\* stream2 = self.stream_reader(stream); obj = sub parse on stream2;
\* stream2.close(); return obj
Restream_parse(c, m) ==
    LET stream2 == StreamTap(m)
        r == Parse(c.subcon, stream2)
    IN  IF r.err # NoError THEN r
        ELSE Ok(r.val, StreamTap_close(r.m, Len(stream2.wrappers)))

Restream_build(c, o, m) ==
    LET stream2 == StreamTap(m)
        r == Build(c.subcon, o, stream2)
    IN  IF r.err # NoError THEN r
        ELSE Ok(None, StreamTap_close(r.m, Len(stream2.wrappers)))

Restream_sizeof(c, context) ==
    LET s == Sizeof(c.subcon, context)
    IN  IF s.err # NoError THEN s ELSE SizeOk(s.n \div c.resizer.div)

\* ---- Checksum
\* the bytes of the anchor range, read with the position restored afterwards
Checksum_range(c, m) ==
    IF ~Has(m.ctx, c.anchors) THEN Raise("KeyError", m)
    ELSE IF Get(m.ctx, c.anchors).k # "con" THEN Raise("TypeError", m)
    ELSE LET a == Get(m.ctx, c.anchors)
             startsat == Get(a, "offset1").v
             endsat == Get(a, "offset2").v
             r == read_stream(StreamSeek(m, startsat), endsat - startsat)
         IN  IF r.err # NoError THEN r ELSE Ok(hashfunc(r.val.v), StreamSeek(r.m, m.pos))

Checksum_parse(c, m) ==
    LET h1 == Parse(c.checksumfield, m)
        h2 == Checksum_range(c, h1.m)
    IN  IF h1.err # NoError THEN h1
        ELSE IF h2.err # NoError THEN h2
        ELSE IF ~ValEq(h1.val, h2.val) THEN Raise("ChecksumError", h2.m)
        ELSE Ok(h1.val, h2.m)

Checksum_build(c, o, m) ==
    LET h2 == Checksum_range(c, m)
    IN  IF h2.err # NoError THEN h2 ELSE Build(c.checksumfield, h2.val, h2.m)

Checksum_sizeof(c, context) == Sizeof(c.checksumfield, context)

\* ---- Prefixed
Prefixed_parse(c, m) ==
    LET n == Parse(c.lengthfield, m)
        d == read_stream(n.m, n.val.v)
        r == ParseBytes(c.subcon, d.val.v, d.m)
    IN  IF n.err # NoError THEN n
        ELSE IF d.err # NoError THEN d
        ELSE [err |-> r.err, val |-> r.val, m |-> r.m]

Prefixed_build(c, o, m) ==
    LET b == BuildBytes(c.subcon, o, m)
        n == Build(c.lengthfield, PyInt(Len(b.bytes)), b.m)
    IN  IF b.err # NoError THEN Raise(b.err, b.m)
        ELSE IF n.err # NoError THEN n
        ELSE write_stream(n.m, Len(b.bytes), PyBytes(b.bytes))

Prefixed_sizeof(c, context) ==
    LET a == Sizeof(c.lengthfield, context)
        b == Sizeof(c.subcon, context)
    IN  IF a.err # NoError THEN a ELSE IF b.err # NoError THEN b ELSE SizeOk(a.n + b.n)

\* ---- Pointer
\* Pointer._parse without the final `stream.seek(origpos)`
Pointer_parse_norestore(c, m) ==
    LET newpos == Call(c.offsetfunc, m.ctx)
    IN  IF newpos.err # NoError THEN Raise(newpos.err, m)
        ELSE Parse(c.subcon, StreamSeekWhence(m, newpos.val.v))

\* seek(newpos, 2 if newpos < 0 else 0); sub parse; seek(origpos)
Pointer_parse(c, m) ==
    LET newpos == Call(c.offsetfunc, m.ctx)
    IN  IF newpos.err # NoError THEN Raise(newpos.err, m)
        ELSE LET r == Parse(c.subcon, StreamSeekWhence(m, newpos.val.v))
             IN  IF r.err # NoError THEN r ELSE Ok(r.val, StreamSeek(r.m, m.pos))

Pointer_build(c, o, m) ==
    LET newpos == Call(c.offsetfunc, m.ctx)
    IN  IF newpos.err # NoError THEN Raise(newpos.err, m)
        ELSE LET r == Build(c.subcon, o, StreamSeekWhence(m, newpos.val.v))
             IN  IF r.err # NoError THEN r ELSE Ok(None, StreamSeek(r.m, m.pos))

Pointer_sizeof(c, context) == SizeOk(0)

\* ---- Switch
\* the equality a dictionary looks a key up with: True == 1 and False == 0
KeyEq(a, b) ==
    LET num(x) == IF x.k = "bool" THEN (IF x.v THEN 1 ELSE 0) ELSE x.v
    IN  IF a.k \in {"int", "bool"} /\ b.k \in {"int", "bool"} THEN num(a) = num(b)
        ELSE ValEq(a, b)

\* a lookup that ignores the key: the first case is always taken
Switch_case_first(c, key) == c.cases[1].con

\* self.cases.get(key, self.default)
Switch_case(c, key) ==
    LET hits == {i \in DOMAIN c.cases : KeyEq(c.cases[i].key, key)}
    IN  IF hits = {} THEN c.default ELSE c.cases[CHOOSE i \in hits : TRUE].con

Switch_parse(c, m) ==
    LET key == Call(c.keyfunc, m.ctx)
    IN  IF key.err # NoError THEN Raise(key.err, m)
        ELSE LET r == Parse(Switch_case(c, key.val), m)
             IN  IF r.err # NoError \/ ~c.include_key THEN r
                 ELSE Ok(PyTuple(<<key.val, r.val>>), r.m)

Switch_build(c, o, m) ==
    IF c.include_key
    THEN IF o.k # "tuple" \/ Len(o.v) # 2 THEN Raise("TypeError", m)
         ELSE Build(Switch_case(c, o.v[1]), o.v[2], m)
    ELSE LET key == Call(c.keyfunc, m.ctx)
         IN  IF key.err # NoError THEN Raise(key.err, m)
             ELSE Build(Switch_case(c, key.val), o, m)

Switch_sizeof(c, context) ==
    LET key == Call(c.keyfunc, context)
    IN  IF key.err # NoError THEN SizeRaise(key.err)
        ELSE Sizeof(Switch_case(c, key.val), context)

\* ---- LazyBound
\* self.bindfunc(): the construct the thunk returns.  The thunk returns the
\* same object at every call, so the memoised self.bound is that object too.
RECURSIVE bound(_)

LazyBound_parse(c, m) == Parse(bound(c), m)

LazyBound_build(c, o, m) == Build(bound(c), o, m)

LazyBound_sizeof(c, context) == Sizeof(bound(c), context)

\* ---- LazyStruct
\* the second loop of LazyStruct.__init__: sc.sizeof() of every sub, None where
\* it raises SizeofError; any other exception leaves the constructor
RECURSIVE LazyStruct_subsizes(_, _)
LazyStruct_subsizes(subcons, i) ==
    IF i > Len(subcons) THEN [err |-> NoError, val |-> <<>>]
    ELSE LET s == Sizeof(subcons[i], Container)
             rest == LazyStruct_subsizes(subcons, i + 1)
         IN  IF s.err \notin {NoError, "SizeofError"} THEN [err |-> s.err, val |-> <<>>]
             ELSE IF rest.err # NoError THEN rest
             ELSE [err |-> NoError,
                   val |-> <<IF s.err = NoError THEN PyInt(s.n) ELSE None>> \o rest.val]

\* the offset of sub i from the start of a struct whose subs all have a size
RECURSIVE LazyStruct_at(_, _)
LazyStruct_at(subsizes, i) ==
    IF i = 1 THEN 0 ELSE LazyStruct_at(subsizes, i - 1) + subsizes[i - 1].v

\* LazyStruct(name, *subcons): the construct, or the exception of __init__.
\* offsetmap is None as soon as one sub has no size; otherwise it gives every
\* sub its offset, and totalsizeof is the sum of the sizes
LazyStruct(name, subcons) ==
    LET sizes == LazyStruct_subsizes(subcons, 1)
        static == \A i \in DOMAIN sizes.val : sizes.val[i] # None
    IN  IF sizes.err # NoError THEN [err |-> sizes.err, val |-> None]
        ELSE [err |-> NoError,
              val |-> [k |-> "LazyStruct", name |-> name, conflags |-> 0, subcons |-> subcons,
                       offsetmap |-> IF static
                                     THEN PyList([i \in DOMAIN subcons |->
                                                    PyInt(LazyStruct_at(sizes.val, i))])
                                     ELSE None,
                       totalsizeof |-> IF static
                                       THEN PyInt(LazyStruct_at(sizes.val, Len(subcons) + 1))
                                       ELSE None,
                       subsizes |-> sizes.val]]

\* LazyContainer(subcons, offsetmap, values, stream, addoffset, context)
LazyContainer(subcons, offsetmap, values, addoffset, context) ==
    [k |-> "lazy", subcons |-> subcons, offsetmap |-> offsetmap, values |-> values,
     addoffset |-> addoffset, context |-> context]

\* the loop of LazyStruct._parse over zip(subcons, subsizes): a sub without a
\* size is parsed now and stored in values and in the context; a sub with a
\* size gets its offset recorded and is skipped with seek(size, 1)
RECURSIVE LazyStruct_parse_loop(_, _, _, _, _)
LazyStruct_parse_loop(c, i, offsetmap, values, m) ==
    IF i > Len(c.subcons)
    THEN Ok(LazyContainer(c.subcons, PyList(offsetmap), values, 0, m.ctx), m)
    ELSE IF c.subsizes[i] = None
    THEN LET r == Parse(c.subcons[i], m)
         IN  IF r.err # NoError THEN Raise(r.err, r.m)
             ELSE LazyStruct_parse_loop(c, i + 1, Append(offsetmap, None),
                      Set(values, c.subcons[i].name, r.val),
                      [r.m EXCEPT !.ctx = Set(@, c.subcons[i].name, r.val)])
    ELSE LazyStruct_parse_loop(c, i + 1, Append(offsetmap, PyInt(m.pos)), values,
             StreamSeek(m, m.pos + c.subsizes[i].v))

LazyStruct_parse(c, m) ==
    IF c.offsetmap # None
    THEN Ok(LazyContainer(c.subcons, c.offsetmap, Container, m.pos, m.ctx),
            StreamSeek(m, m.pos + c.totalsizeof.v))
    ELSE LazyStruct_parse_loop(c, 1, <<>>, Container, m)

\* reading a field of the lazy container: the value kept in values, or the
\* field's sub parsed from the stream at addoffset + the field's offset
LazyContainer_getitem(lc, name, stream) ==
    LET found == {i \in DOMAIN lc.subcons :
                     lc.subcons[i].name = name /\ lc.offsetmap.v[i] # None}
        i == CHOOSE i \in found : \A j \in found : j <= i
    IN  IF Has(lc.values, name) THEN Ok(Get(lc.values, name), Machine(stream, 0, lc.context))
        ELSE IF found = {} THEN Raise("KeyError", Machine(stream, 0, lc.context))
        ELSE Parse(lc.subcons[i],
                   Machine(stream, lc.addoffset + lc.offsetmap.v[i].v, lc.context))

\* ---- dispatch on the construct's class (a Subconstruct without methods of
\* its own, such as Reconfig, hands the call to the construct it wraps)
Parse(c, m) ==
    CASE c.k = "StaticField" -> StaticField_parse(c, m)
      [] c.k = "FormatField" -> FormatField_parse(c, m)
      [] c.k = "MetaField" -> MetaField_parse(c, m)
      [] c.k = "VarInt" -> VarInt_parse(c, m)
      [] c.k = "Padding" -> Padding_parse(c, m)
      [] c.k = "String" -> String_parse(c, m)
      [] c.k = "CString" -> CString_parse(c, m)
      [] c.k = "Const" -> Const_parse(c, m)
      [] c.k = "Anchor" -> Anchor_parse(c, m)
      [] c.k = "AnchorRange" -> AnchorRange_parse(c, m)
      [] c.k = "Computed" -> Computed_parse(c, m)
      [] c.k = "Pass" -> Pass_parse(c, m)
      [] c.k = "Terminator" -> Terminator_parse(c, m)
      [] c.k = "MetaArray" -> MetaArray_parse(c, m)
      [] c.k = "Range" -> Range_parse(c, m)
      [] c.k = "Struct" -> Struct_parse(c, m)
      [] c.k = "Peek" -> Peek_parse(c, m)
      [] c.k = "Union" -> Union_parse(c, m)
      [] c.k = "Select" -> Select_parse(c, m)
      [] c.k = "Aligned" -> Aligned_parse(c, m)
      [] c.k = "Restream" -> Restream_parse(c, m)
      [] c.k = "Checksum" -> Checksum_parse(c, m)
      [] c.k = "Prefixed" -> Prefixed_parse(c, m)
      [] c.k = "Reconfig" -> Parse(c.subcon, m)
      [] c.k = "Switch" -> Switch_parse(c, m)
      [] c.k = "Pointer" -> Pointer_parse(c, m)
      [] c.k = "RepeatUntil" -> RepeatUntil_parse(c, m)
      [] c.k = "NoDefault" -> Raise("SwitchError", m)
      [] c.k = "LazyBound" -> LazyBound_parse(c, m)

Build(c, o, m) ==
    CASE c.k = "StaticField" -> StaticField_build(c, o, m)
      [] c.k = "FormatField" -> FormatField_build(c, o, m)
      [] c.k = "MetaField" -> MetaField_build(c, o, m)
      [] c.k = "VarInt" -> VarInt_build(c, o, m)
      [] c.k = "Padding" -> Padding_build(c, o, m)
      [] c.k = "String" -> String_build(c, o, m)
      [] c.k = "CString" -> CString_build(c, o, m)
      [] c.k = "Const" -> Const_build(c, o, m)
      [] c.k = "Anchor" -> Anchor_build(c, o, m)
      [] c.k = "AnchorRange" -> AnchorRange_build(c, o, m)
      [] c.k = "Computed" -> Computed_build(c, o, m)
      [] c.k = "Pass" -> Pass_build(c, o, m)
      [] c.k = "Terminator" -> Pass_build(c, o, m)
      [] c.k = "MetaArray" -> MetaArray_build(c, o, m)
      [] c.k = "Range" -> Range_build(c, o, m)
      [] c.k = "Struct" -> Struct_build(c, o, m)
      [] c.k = "Peek" -> Peek_build(c, o, m)
      [] c.k = "Union" -> Union_build(c, o, m)
      [] c.k = "Select" -> Select_build(c, o, m)
      [] c.k = "Aligned" -> Aligned_build(c, o, m)
      [] c.k = "Restream" -> Restream_build(c, o, m)
      [] c.k = "Checksum" -> Checksum_build(c, o, m)
      [] c.k = "Prefixed" -> Prefixed_build(c, o, m)
      [] c.k = "Reconfig" -> Build(c.subcon, o, m)
      [] c.k = "Switch" -> Switch_build(c, o, m)
      [] c.k = "Pointer" -> Pointer_build(c, o, m)
      [] c.k = "RepeatUntil" -> RepeatUntil_build(c, o, m)
      [] c.k = "NoDefault" -> Raise("SwitchError", m)
      [] c.k = "LazyBound" -> LazyBound_build(c, o, m)

Sizeof(c, context) ==
    CASE c.k \in {"StaticField", "FormatField"} -> StaticField_sizeof(c, context)
      [] c.k = "MetaField" -> MetaField_sizeof(c, context)
      [] c.k = "Padding" -> Padding_sizeof(c, context)
      [] c.k = "String" -> String_sizeof(c, context)
      [] c.k = "CString" -> CString_sizeof(c, context)
      [] c.k = "Const" -> Const_sizeof(c, context)
      [] c.k \in {"Anchor", "AnchorRange", "Computed", "Pass", "Terminator"} -> SizeOk(0)
      [] c.k = "MetaArray" -> MetaArray_sizeof(c, context)
      [] c.k = "Range" -> Range_sizeof(c, context)
      [] c.k = "Struct" -> Struct_sizeof(c, context)
      [] c.k = "Peek" -> Peek_sizeof(c, context)
      [] c.k = "Union" -> Union_sizeof(c, context)
      [] c.k = "Aligned" -> Aligned_sizeof(c, context)
      [] c.k = "Restream" -> Restream_sizeof(c, context)
      [] c.k = "Checksum" -> Checksum_sizeof(c, context)
      [] c.k = "Prefixed" -> Prefixed_sizeof(c, context)
      [] c.k = "Reconfig" -> Sizeof(c.subcon, context)
      [] c.k = "Switch" -> Switch_sizeof(c, context)
      [] c.k = "Pointer" -> Pointer_sizeof(c, context)
      [] c.k = "RepeatUntil" -> RepeatUntil_sizeof(c, context)
      [] c.k = "NoDefault" -> SizeRaise("SwitchError")
      [] c.k = "LazyBound" -> LazyBound_sizeof(c, context)
      [] c.k \in {"VarInt", "Select"} -> SizeRaise("SizeofError")

(***************************************************************************)
(* The constructs the calls are made on, by catalogue name.                *)
(***************************************************************************)
\* an unsigned big-endian integer of one byte, of two bytes
U8(name) == FormatField(name, ">", "B")
U16(name) == FormatField(name, ">", "H")

\* a Struct with the default options (nested, no overwriting)
PlainStruct(name, subcons) == Struct(name, subcons, TRUE, FALSE)

Cat(id) ==
    CASE id = "VarInt" -> VarInt("v")
      [] id = "StaticField" -> StaticField("f", 2)
      [] id = "Padding" -> Padding(2, 0, FALSE)
      [] id = "String" -> String("s", 2, 0, "right", "right")
      [] id = "StringLeft" -> String("s", 2, 0, "left", "left")
      [] id = "StringCenter" -> String("s", 3, 5, "center", "right")
      [] id = "CString" -> CString("t", <<0>>)
      [] id = "SelectNarrow" -> Select("sel", <<U8("small"), U16("big")>>, FALSE)
      [] id = "SelectDup" ->
            Select("sel", <<PlainStruct("dup", <<U8("a"), U8("a")>>), U8("b")>>, FALSE)
      [] id = "RangeDup" -> Range(0, 2, PlainStruct("dup", <<U8("a"), U8("a")>>))
      [] id = "EmbedFlat" ->
            Struct("s", <<U8("a"),
                          Reconfig("sw", Switch("sw", NonZeroFn("a"),
                                                <<Case(PyBool(TRUE), U8("x")),
                                                  Case(PyBool(FALSE), Pass)>>, NoDefault, FALSE),
                                   FLAG_EMBED, 0)>>, FALSE, FALSE)
      [] id = "EmbedMark" ->
            PlainStruct("s", <<U8("a"),
                               Reconfig("sw", Switch("sw", NonZeroFn("a"),
                                                     <<Case(PyBool(TRUE),
                                                            PlainStruct("in", <<U8("c")>>)),
                                                       Case(PyBool(FALSE), Anchor("mark"))>>,
                                                     NoDefault, FALSE),
                                        FLAG_EMBED, 0),
                               PlainStruct("later", <<U8("b")>>)>>)
      [] id = "RangeWide" -> Range(1, 2, U16("x"))
      [] id = "Chosen" ->
            PlainStruct("ch",
                        <<U8("n"),
                          Select("sel",
                                 <<Struct("first", <<U8("n"), U8("w")>>, FALSE, TRUE),
                                   Struct("second", <<MetaField("d", CtxFn("n"))>>,
                                          FALSE, FALSE)>>, FALSE)>>)
      [] id = "SelectMarks" ->
            Select("sel",
                   <<Struct("first", <<Anchor("mark"), U16("w")>>, FALSE, FALSE),
                     Struct("second", <<Anchor("other"), Const(U8("k"), PyInt(1))>>,
                            FALSE, FALSE)>>, FALSE)
      [] id = "RangeMarks" ->
            Range(0, 2, Struct("r", <<Anchor("mark"), U16("w")>>, FALSE, FALSE))
      [] id = "UnionMarks" ->
            Union("u", <<Struct("first", <<Anchor("mark"), U8("w")>>, FALSE, FALSE), U8("b")>>,
                  None)
      [] id = "Restream" -> Restream(U16("x"), "StreamTap", "StreamTap", [div |-> 1])
      [] id = "Const" -> Const(U8("c"), PyInt(1))
      [] id = "Pair" -> PlainStruct("pair", <<U8("a"), StaticField("b", 1)>>)
      [] id = "MetaArray" -> MetaArray(ConstFn(2), U8("x"))
      [] id = "Counted" ->
            PlainStruct("cn", <<U8("n"), MetaArray(CtxFn("n"), U8("items"))>>)
      [] id = "RepeatUntil" -> RepeatUntil(ObjEqFn(PyInt(5)), U8("x"))
      [] id = "Aligned" -> Aligned(U8("a"), 2, 0)
      [] id = "AlignedWord" -> Aligned(U8("a"), 4, 0)
      [] id = "AlignedHalf" -> Aligned(U16("a"), 4, 0)
      [] id = "Peek" -> Peek(U8("p"), FALSE)
      [] id = "Prefixed" -> Prefixed(U8("n"), StaticField("d", 1))
      [] id = "Select" -> Select("sel", <<U16("big"), U8("small")>>, FALSE)
      [] id = "SelectConst" ->
            Select("sel", <<Const(U8("one"), PyInt(1)), U16("two")>>, FALSE)
      [] id = "SelectNone" ->
            Select("sel", <<Const(U8("one"), PyInt(1)), Const(U8("two"), PyInt(2))>>, FALSE)
      [] id = "Range" -> Range(1, 2, U8("x"))
      [] id = "Union" -> Union("u", <<U16("a"), U8("b")>>, None)
      [] id = "UnionIndex" -> Union("u", <<U16("a"), U8("b")>>, PyInt(1))
      [] id = "UnionName" -> Union("u", <<U16("a"), U8("b")>>, PyStr("a"))
      [] id = "LenData" ->
            PlainStruct("ld", <<U8("length"), MetaField("data", CtxFn("length"))>>)
      [] id = "Anchored" ->
            PlainStruct("an", <<AnchorRange("range"), U8("a"), AnchorRange("range")>>)
      [] id = "Checked" ->
            PlainStruct("ck", <<AnchorRange("range"), U8("a"), AnchorRange("range"),
                                Checksum(U8("checksum"), "range")>>)
      [] id = "Embedding" ->
            PlainStruct("outer",
                        <<U8("a"),
                          Reconfig("inner", PlainStruct("inner", <<U8("c")>>), FLAG_EMBED, 0),
                          U8("e")>>)
      [] id = "Flat" -> PlainStruct("outer", <<U8("a"), U8("c"), U8("e")>>)
      [] id = "Dup" -> PlainStruct("dup", <<U8("a"), U8("a")>>)
      [] id = "Pointer" -> Pointer(ConstFn(2), U8("p"))
      [] id = "PointerEnd" -> Pointer(ConstFn(0 - 1), U8("p"))
      [] id = "Pointed" ->
            PlainStruct("pt", <<U8("offset"), Pointer(CtxFn("offset"), U8("target")),
                                U8("after")>>)
      [] id = "PointedEnd" ->
            PlainStruct("pe", <<U8("a"), U8("b"), Pointer(ConstFn(0 - 1), U8("last"))>>)
      [] id = "PeekConst" -> Peek(Const(U8("c"), PyInt(1)), FALSE)
      [] id = "PeekWide" -> Peek(U16("w"), FALSE)
      [] id = "Peeked" -> PlainStruct("pk", <<U8("a"), Peek(U8("b"), FALSE), U8("c")>>)
      [] id = "Node" ->
            PlainStruct("node",
                        <<U8("value"), U8("next"),
                          Switch("tail", NonZeroFn("next"),
                                 <<Case(PyBool(TRUE), LazyBound("tail", "Node")),
                                   Case(PyBool(FALSE), Pass)>>, NoDefault, FALSE)>>)
      [] id = "DupAllowed" -> Struct("dup", <<U8("a"), U8("a")>>, TRUE, TRUE)

\* lambda: Node, the thunk of the linked list's LazyBound
bound(c) == Cat(c.bindfunc)

StructIds ==
    {"Pair", "LenData", "Anchored", "Checked", "Embedding", "Flat", "Dup", "DupAllowed",
     "Peeked", "Pointed", "PointedEnd", "Counted", "EmbedMark", "Chosen"}

Ids ==
    {"VarInt", "StaticField", "Padding", "String", "Const", "MetaArray", "Aligned", "Peek",
     "Prefixed", "Select", "SelectConst", "SelectNone", "Range", "Union", "Node",
     "PeekConst", "PeekWide", "Pointer", "PointerEnd", "StringLeft", "StringCenter", "RepeatUntil",
     "AlignedWord", "AlignedHalf", "UnionIndex", "UnionName", "CString", "SelectNarrow",
     "SelectDup", "RangeDup", "EmbedFlat", "RangeWide", "SelectMarks", "RangeMarks",
     "UnionMarks", "Restream"}
    \cup StructIds

(***************************************************************************)
(* The inputs of the calls.                                                *)
(***************************************************************************)
\* byte strings handed to parse
Inputs == SeqsUpTo(ByteVals, MaxLen)

\* the longer inputs of the length-prefixed struct: 03 A B C rest
LongInputs == {<<3>> \o s : s \in {t \in SeqsUpTo({1, 2}, MaxLen + 1) : Len(t) = MaxLen + 1}}

\* linked lists of at most MaxRecords records of (value, next) bytes, whole or cut short
MaxRecords == 3
ListInputs == SeqsUpTo({0, 1}, 2 * MaxRecords)

\* the inputs of the repeater and the union over structs that record a
\* position, and of the lazy structs
MarkInputs == SeqsUpTo({0, 1}, MaxLen)

\* the sub lists given to LazyStruct and, for comparison, to Struct
LazyIds == {"LazyStatic", "LazyText", "LazyLenData", "LazyInner"}
LazySubs(id) ==
    CASE id = "LazyStatic" -> <<U8("a"), U16("b")>>
      [] id = "LazyText" -> <<U8("a"), CString("b", <<0>>)>>
      [] id = "LazyLenData" -> <<U8("length"), MetaField("data", CtxFn("length"))>>
      [] id = "LazyInner" ->
            <<U8("n"), Struct("inner", <<CString("t", <<0>>), MetaField("d", CtxFn("n"))>>,
                              FALSE, FALSE)>>

InputsOf(id) ==
    IF id = "LenData" THEN Inputs \cup LongInputs
    ELSE IF id = "Node" THEN ListInputs
    ELSE IF id \in {"RangeMarks", "UnionMarks", "Restream"} THEN MarkInputs
    ELSE Inputs

\* the integers handed to VarInt.build: every value to MaxVarInt, and values
\* around the two-byte and the three-byte limit
MaxVarInt == 130
VarIntVals == 0..MaxVarInt \cup {300, 645, 16383, 16384, 16385, 2097151}

\* a container with the given keys (in order) and values
RECURSIVE MakeCon(_, _)
MakeCon(keys, vals) ==
    IF keys = <<>> THEN Container
    ELSE Set(MakeCon(SubSeq(keys, 1, Len(keys) - 1), SubSeq(vals, 1, Len(vals) - 1)),
             keys[Len(keys)], vals[Len(vals)])

SmallInts == {PyInt(n) : n \in {0, 1, 2, 256}}
SmallBytes == {PyBytes(s) : s \in SeqsUpTo({0, 1}, MaxItems)}
SmallLists == {PyList(s) : s \in SeqsUpTo({PyInt(1), PyInt(256)}, MaxItems)}

\* the values handed to build
ValuesOf(id) ==
    CASE id = "VarInt" -> {PyInt(v) : v \in VarIntVals} \cup {PyInt(0 - 1)}
      [] id \in {"StaticField", "String", "Prefixed"} -> SmallBytes \cup {PyInt(1)}
      [] id \in {"StringLeft", "StringCenter"} ->
            SmallBytes \cup {PyBytes(<<5>>), PyBytes(<<1, 5>>), PyBytes(<<5, 1>>)}
      [] id \in {"Padding", "Const"} -> {None}
      [] id \in {"MetaArray", "Range"} -> SmallLists \cup {PyInt(1)}
      [] id = "RangeWide" -> {PyList(<<PyInt(1)>>), PyList(<<>>)}
      [] id \in {"Aligned", "Peek", "Select", "SelectConst", "SelectNone", "SelectNarrow"} ->
            SmallInts
      [] id = "CString" -> SmallBytes \cup {PyInt(1)}
      [] id = "SelectMarks" -> {MakeCon(<<"w">>, <<PyInt(1)>>), MakeCon(<<"k">>, <<PyInt(1)>>)}
      [] id = "Chosen" ->
            {MakeCon(<<"n", "sel">>, <<PyInt(1), MakeCon(<<"n", "w">>, <<PyInt(2), PyInt(3)>>)>>)}
      [] id = "EmbedFlat" -> {MakeCon(<<"a">>, <<PyInt(a)>>) : a \in 0..1}
      [] id = "EmbedMark" ->
            {MakeCon(<<"a", "later">>, <<PyInt(0), MakeCon(<<"b">>, <<PyInt(2)>>)>>),
             MakeCon(<<"a", "c", "later">>,
                     <<PyInt(1), PyInt(3), MakeCon(<<"b">>, <<PyInt(2)>>)>>)}
      [] id = "SelectDup" -> {PyInt(1), MakeCon(<<"a">>, <<PyInt(1)>>)}
      [] id = "RangeMarks" ->
            {PyList(l) : l \in SeqsUpTo({MakeCon(<<"w">>, <<PyInt(1)>>)}, MaxItems)}
      [] id = "UnionMarks" ->
            {MakeCon(<<"first", "b">>, <<MakeCon(<<"w">>, <<w>>), PyInt(1)>>) :
                w \in {PyInt(1), PyInt(256)}}
            \cup {MakeCon(<<"b">>, <<PyInt(1)>>)}
      [] id = "RangeDup" -> {PyList(<<>>), PyList(<<MakeCon(<<"a">>, <<PyInt(1)>>)>>)}
      [] id \in {"PeekConst", "PeekWide"} -> SmallInts \cup {None}
      [] id \in {"Pointer", "PointerEnd", "AlignedWord", "AlignedHalf"} -> SmallInts
      [] id = "Restream" -> {PyInt(1), PyInt(65536)}
      [] id = "RepeatUntil" ->
            {PyList(l) : l \in SeqsUpTo({PyInt(1), PyInt(5), PyInt(256)}, MaxItems)}
                \cup {PyInt(1)}
      [] id = "Counted" ->
            {MakeCon(<<"n", "items">>, <<PyInt(n), l>>) : n \in 0..2, l \in SmallLists}
      [] id = "PointedEnd" ->
            {MakeCon(<<"a", "b", "last">>, <<PyInt(1), PyInt(2), t>>) :
                t \in {PyInt(5), PyInt(256)}}
      [] id = "Pointed" ->
            {MakeCon(<<"offset", "target", "after">>, <<PyInt(o), PyInt(3), a>>) :
                o \in 0..MaxItems, a \in {PyInt(5), PyInt(256)}}
      [] id = "Peeked" ->
            {MakeCon(<<"a", "b", "c">>, <<a, b, PyInt(3)>>) : a \in SmallInts, b \in SmallInts}
            \cup {MakeCon(<<"a", "c">>, <<PyInt(1), PyInt(3)>>)}
      [] id = "Pair" ->
            {MakeCon(<<"a", "b">>, <<a, b>>) : a \in SmallInts, b \in {PyBytes(<<1>>), PyBytes(<<>>)}}
      [] id \in {"Union", "UnionIndex", "UnionName"} ->
            {MakeCon(<<"a", "b">>, <<a, b>>) : a \in SmallInts \cup {PyInt(65536)}, b \in SmallInts}
            \cup {MakeCon(<<"b">>, <<b>>) : b \in SmallInts}
      [] id = "LenData" ->
            {MakeCon(<<"length", "data">>, <<PyInt(n), d>>) : n \in 0..MaxItems, d \in SmallBytes}
      [] id \in {"Anchored", "Checked", "Dup", "DupAllowed"} ->
            {MakeCon(<<"a">>, <<a>>) : a \in SmallInts \cup {PyInt(133)}}
      [] id = "Node" ->
            LET last == MakeCon(<<"value", "next", "tail">>, <<PyInt(1), PyInt(0), None>>)
            IN  {last, MakeCon(<<"value", "next", "tail">>, <<PyInt(2), PyInt(1), last>>),
                 MakeCon(<<"value", "next", "tail">>, <<PyInt(2), PyInt(1), None>>)}
      [] id \in {"Embedding", "Flat"} ->
            {MakeCon(<<"a", "c", "e">>, <<a, c, e>>) : a \in {PyInt(1), PyInt(2)}, c \in SmallInts,
                                                       e \in {PyInt(3), PyInt(256)}}
            \cup {MakeCon(<<"a", "inner", "e">>, <<PyInt(1), MakeCon(<<"c">>, <<PyInt(2)>>), PyInt(3)>>)}

\* the objects the module creates once and every user shares: the Pass and
\* Terminator singletons, and a field a user keeps and wraps more than once
Shared == {"Pass", "Terminator", "Byte"}
InitHeap ==
    [i \in Shared |-> CASE i = "Pass" -> Pass [] i = "Terminator" -> Terminator
                        [] i = "Byte" -> U8("b")]

\* the names given to wrappers
Names == {"x", "y"}

\* the threads that share the LazyBound object, and the calls each makes
Threads == {1, 2}
MaxCalls == 2

\* the thunks: `lambda: foo` returns the same construct at every invocation,
\* `lambda: Struct(...)` a new construct at every invocation
Thunks == {"same", "fresh"}

\* the construct the n-th invocation of the thunk returns (by identity)
bindfunc(f, n) == [k |-> "construct", id |-> IF f = "same" THEN 1 ELSE n]

\* a thread outside any call: made is the thunk result it holds, on the
\* construct that handled its last call
InitThread == [pc |-> "idle", op |-> "none", made |-> None, on |-> None, calls |-> 0]

(***************************************************************************)
(* The harness: one top-level call at a time, on a fresh context.          *)
(***************************************************************************)
Init ==
    /\ pc = "idle"
    /\ op = "none"
    /\ cid = "none"
    /\ arg = None
    /\ data0 = <<>>
    /\ pos0 = 0
    /\ data = <<>>
    /\ pos = 0
    /\ ctx = Container
    /\ ret = None
    /\ err = NoError
    /\ idx = 0
    /\ obj = Container
    /\ log = <<>>
    /\ heap = InitHeap
    /\ wrappers = <<>>
    /\ lazy = [bindfunc |-> "same", bound |-> None]
    /\ invoked = 0
    /\ thread = [t \in Threads |-> InitThread]

\* the call returned or raised: r is what it left
Returned(r) ==
    /\ pc' = "done"
    /\ data' = r.m.data
    /\ pos' = r.m.pos
    /\ ctx' = r.m.ctx
    /\ ret' = r.val
    /\ err' = r.err
    /\ wrappers' = r.m.wrappers

\* Construct.parse_stream(stream) with the stream holding b, at position p
parse_stream(id, b, p) ==
    /\ pc = "idle"
    /\ p <= Len(b)
    /\ op' = "parse"
    /\ cid' = id
    /\ data0' = b
    /\ pos0' = p
    /\ Returned(Parse(Cat(id), Machine(b, p, Container)))
    /\ UNCHANGED <<arg, idx, obj, log, heap>>
    /\ UNCHANGED lazyvars

\* LazyStruct(id, *subs).parse_stream(stream): the constructor, then the parse
LazyStruct_parse_stream(id, b, p) ==
    /\ pc = "idle"
    /\ p <= Len(b)
    /\ op' = "parse"
    /\ cid' = id
    /\ data0' = b
    /\ pos0' = p
    /\ \E c \in {LazyStruct(id, LazySubs(id))} :
          IF c.err # NoError THEN Returned(Raise(c.err, Machine(b, p, Container)))
          ELSE Returned(LazyStruct_parse(c.val, Machine(b, p, Container)))
    /\ UNCHANGED <<arg, idx, obj, log, heap>>
    /\ UNCHANGED lazyvars

\* Construct.build(v): build_stream into a fresh BytesIO
build(id, v) ==
    /\ pc = "idle"
    /\ op' = "build"
    /\ cid' = id
    /\ arg' = v
    /\ Returned(Build(Cat(id), v, Machine(<<>>, 0, Container)))
    /\ UNCHANGED <<data0, pos0, idx, obj, log, heap>>
    /\ UNCHANGED lazyvars

\* Construct.sizeof()
sizeof(id) ==
    /\ pc = "idle"
    /\ op' = "sizeof"
    /\ cid' = id
    /\ LET s == Sizeof(Cat(id), Container)
       IN  /\ ret' = PyInt(s.n)
           /\ err' = s.err
    /\ pc' = "done"
    /\ UNCHANGED <<arg, data0, pos0, data, pos, ctx, idx, obj, log, heap, wrappers>>
    /\ UNCHANGED lazyvars

\* C.parse(C.build(v)): parse the bytes the build just produced
parse_built ==
    /\ pc = "done"
    /\ op = "build"
    /\ err = NoError
    /\ op' = "parseback"
    /\ data0' = data
    /\ pos0' = 0
    /\ Returned(Parse(Cat(cid), Machine(data, 0, Container)))
    /\ idx' = 0
    /\ obj' = Container
    /\ log' = <<>>
    /\ UNCHANGED <<cid, arg, heap>>
    /\ UNCHANGED lazyvars

\* C.build(C.parse(C.build(v))): build the value the parse just returned;
\* data0 keeps the bytes of the first build
build_parsed ==
    /\ pc = "done"
    /\ op = "parseback"
    /\ err = NoError
    /\ op' = "rebuild"
    /\ Returned(Build(Cat(cid), ret, Machine(<<>>, 0, Container)))
    /\ UNCHANGED <<cid, arg, data0, pos0, idx, obj, log, heap>>
    /\ UNCHANGED lazyvars

\* parse the bytes the build just produced with the byte at index i replaced by x
parse_mutated(i, x) ==
    /\ pc = "done"
    /\ op = "build"
    /\ err = NoError
    /\ i \in 1..Len(data)
    /\ x # data[i]
    /\ op' = "parsemutated"
    /\ data0' = [data EXCEPT ![i] = x]
    /\ pos0' = 0
    /\ idx' = i
    /\ Returned(Parse(Cat(cid), Machine([data EXCEPT ![i] = x], 0, Container)))
    /\ obj' = Container
    /\ log' = <<>>
    /\ UNCHANGED <<cid, arg, heap>>
    /\ UNCHANGED lazyvars

\* ---- Struct._parse, one sub at a time
Struct_parse_begin(id, b, p) ==
    /\ pc = "idle"
    /\ id \in StructIds
    /\ p <= Len(b)
    /\ LET e == Struct_parse_enter(Cat(id), Machine(b, p, Container))
       IN  /\ obj' = e.obj
           /\ ctx' = e.m.ctx
    /\ pc' = "struct"
    /\ op' = "parse"
    /\ cid' = id
    /\ data0' = b
    /\ pos0' = p
    /\ data' = b
    /\ pos' = p
    /\ idx' = 1
    /\ log' = <<>>
    /\ UNCHANGED <<arg, ret, err, heap, wrappers>>
    /\ UNCHANGED lazyvars

Struct_parse_step ==
    /\ pc = "struct"
    /\ op = "parse"
    /\ idx <= Len(Cat(cid).subcons)
    /\ LET c == Cat(cid)
           sc == c.subcons[idx]
           r == Parse(sc, Struct_parse_before(sc, obj, Machine(data, pos, ctx)))
           s == Struct_parse_after(c, sc, obj, r)
       IN  /\ log' = Append(log, [ctx |-> ctx, val |-> r.val])
           /\ data' = s.m.data
           /\ pos' = s.m.pos
           /\ obj' = s.obj
           /\ IF s.err # NoError
              THEN /\ pc' = "done"
                   /\ err' = s.err
                   /\ ctx' = Container
                   /\ idx' = idx
              ELSE /\ pc' = "struct"
                   /\ err' = err
                   /\ ctx' = s.m.ctx
                   /\ idx' = idx + 1
    /\ UNCHANGED <<op, cid, arg, data0, pos0, ret, heap, wrappers>>
    /\ UNCHANGED lazyvars

Struct_parse_end ==
    /\ pc = "struct"
    /\ op = "parse"
    /\ idx > Len(Cat(cid).subcons)
    /\ pc' = "done"
    /\ ret' = obj
    /\ ctx' = Container
    /\ UNCHANGED <<op, cid, arg, data0, pos0, data, pos, err, idx, obj, log, heap, wrappers>>
    /\ UNCHANGED lazyvars

\* ---- Struct._build, one sub at a time
Struct_build_begin(id, v) ==
    /\ pc = "idle"
    /\ id \in StructIds
    /\ ctx' = Struct_build_enter(Cat(id), Machine(<<>>, 0, Container)).ctx
    /\ pc' = "struct"
    /\ op' = "build"
    /\ cid' = id
    /\ arg' = v
    /\ obj' = v
    /\ idx' = 1
    /\ log' = <<>>
    /\ UNCHANGED <<data0, pos0, data, pos, ret, err, heap, wrappers>>
    /\ UNCHANGED lazyvars

Struct_build_step ==
    /\ pc = "struct"
    /\ op = "build"
    /\ idx <= Len(Cat(cid).subcons)
    /\ LET c == Cat(cid)
           sc == c.subcons[idx]
           m == Machine(data, pos, ctx)
           b == Struct_build_bind(c, sc, obj, m)
           r == IF b.err # NoError THEN b ELSE Build(sc, b.val, b.m)
       IN  /\ log' = IF b.err = NoError THEN Append(log, [ctx |-> b.m.ctx, val |-> b.val])
                     ELSE log
           /\ data' = r.m.data
           /\ pos' = r.m.pos
           /\ IF r.err # NoError
              THEN /\ pc' = "done"
                   /\ err' = r.err
                   /\ ctx' = Container
                   /\ idx' = idx
              ELSE /\ pc' = "struct"
                   /\ err' = err
                   /\ ctx' = r.m.ctx
                   /\ idx' = idx + 1
    /\ UNCHANGED <<op, cid, arg, data0, pos0, ret, obj, heap, wrappers>>
    /\ UNCHANGED lazyvars

Struct_build_end ==
    /\ pc = "struct"
    /\ op = "build"
    /\ idx > Len(Cat(cid).subcons)
    /\ pc' = "done"
    /\ ctx' = Container
    /\ UNCHANGED <<op, cid, arg, data0, pos0, data, pos, ret, err, idx, obj, log, heap, wrappers>>
    /\ UNCHANGED lazyvars

\* the caller drops the stream and the context: the next call starts afresh
Return ==
    /\ pc = "done"
    /\ pc' = "idle"
    /\ op' = "none"
    /\ cid' = "none"
    /\ arg' = None
    /\ data0' = <<>>
    /\ pos0' = 0
    /\ data' = <<>>
    /\ pos' = 0
    /\ ctx' = Container
    /\ ret' = None
    /\ err' = NoError
    /\ idx' = 0
    /\ obj' = Container
    /\ log' = <<>>
    /\ wrappers' = <<>>
    /\ UNCHANGED heap
    /\ UNCHANGED lazyvars

\* ---- the linked list: Node._parse, one record (one activation of the
\* struct that LazyBound re-enters) at a time.  log is the stack of the
\* activations waiting for their tail.
Node_parse_begin(b, p) ==
    /\ pc = "idle"
    /\ p <= Len(b)
    /\ pc' = "list"
    /\ op' = "parse"
    /\ cid' = "Node"
    /\ data0' = b
    /\ pos0' = p
    /\ data' = b
    /\ pos' = p
    /\ ctx' = Container
    /\ log' = <<>>
    /\ UNCHANGED <<arg, ret, err, idx, obj, heap, wrappers>>
    /\ UNCHANGED lazyvars

\* the containers of the waiting activations, innermost last, each given its
\* tail: what the outermost Struct._parse returns
RECURSIVE Node_return(_, _)
Node_return(stack, child) ==
    IF stack = <<>> THEN child
    ELSE Node_return(SubSeq(stack, 1, Len(stack) - 1),
                     Set(stack[Len(stack)].val, "tail", child))

\* one activation: the two bytes are parsed and stored, the Switch picks its
\* case, and the activation either waits for the next one (the case is the
\* LazyBound) or completes, and with it every waiting activation
Node_parse_step ==
    /\ pc = "list"
    /\ LET c == Cat("Node")
           sw == c.subcons[3]
       IN  \E e \in {Struct_parse_enter(c, Machine(data, pos, ctx))} :
           \E r1 \in {Parse(c.subcons[1], Struct_parse_before(c.subcons[1], e.obj, e.m))} :
           \E s1 \in {Struct_parse_after(c, c.subcons[1], e.obj, r1)} :
           \E r2 \in {IF s1.err # NoError THEN r1
                      ELSE Parse(c.subcons[2], Struct_parse_before(c.subcons[2], s1.obj, s1.m))} :
           \E s \in {IF s1.err # NoError THEN s1
                     ELSE Struct_parse_after(c, c.subcons[2], s1.obj, r2)} :
           \E case \in {IF s.err # NoError THEN sw.default
                        ELSE Switch_case(sw, Call(sw.keyfunc, s.m.ctx).val)} :
           \E r3 \in {IF s.err # NoError \/ case.k = "LazyBound" THEN r2 ELSE Parse(case, s.m)} :
           \E s3 \in {Struct_parse_after(c, sw, s.obj, r3)} :
               IF s.err # NoError
               THEN /\ pc' = "done"
                    /\ data' = s.m.data
                    /\ pos' = s.m.pos
                    /\ err' = s.err
                    /\ ctx' = Container
                    /\ UNCHANGED <<ret, log>>
               ELSE IF case.k = "LazyBound"
               THEN /\ pc' = "list"
                    /\ data' = s.m.data
                    /\ pos' = s.m.pos
                    /\ log' = Append(log, [ctx |-> ctx, val |-> s.obj])
                    /\ ctx' = s.m.ctx
                    /\ UNCHANGED <<ret, err>>
               ELSE /\ pc' = "done"
                    /\ data' = s3.m.data
                    /\ pos' = s3.m.pos
                    /\ err' = s3.err
                    /\ ret' = IF s3.err = NoError THEN Node_return(log, s3.obj) ELSE ret
                    /\ ctx' = Container
                    /\ UNCHANGED log
    /\ UNCHANGED <<op, cid, arg, data0, pos0, idx, obj, heap, wrappers>>
    /\ UNCHANGED lazyvars

\* ---- constructions around, and calls on, the shared objects
\* Reconfig(name, shared[i]): __init__ runs on the wrapped object itself
new_Reconfig(i, name) ==
    /\ pc = "idle"
    /\ heap' = [heap EXCEPT ![i] = Reconfig(name, heap[i], 0, 0).subcon]
    /\ pc' = "done"
    /\ op' = "construct"
    /\ cid' = "Reconfig"
    /\ UNCHANGED <<arg, data0, pos0, data, pos, ctx, ret, err, idx, obj, log, wrappers>>
    /\ UNCHANGED lazyvars

\* the wrapper of class w built around the construct c
Wrapper(w, c) ==
    CASE w = "MetaArray" -> MetaArray(ConstFn(2), c)
      [] w = "Range" -> Range(1, 2, c)
      [] w = "Peek" -> Peek(c, FALSE)
      [] w = "Prefixed" -> Prefixed(U8("n"), c)

Wrappers == {"MetaArray", "Range", "Peek", "Prefixed"}

\* MetaArray(..., shared[i]), Range(..., shared[i]), Peek(shared[i]), ...
new_Subconstruct(w, i) ==
    /\ pc = "idle"
    /\ heap' = [heap EXCEPT ![i] = Wrapper(w, heap[i]).subcon]
    /\ pc' = "done"
    /\ op' = "construct"
    /\ cid' = w
    /\ UNCHANGED <<arg, data0, pos0, data, pos, ctx, ret, err, idx, obj, log, wrappers>>
    /\ UNCHANGED lazyvars

\* shared[i].parse_stream(stream)
parse_shared(i, b, p) ==
    /\ pc = "idle"
    /\ p <= Len(b)
    /\ op' = "parse"
    /\ cid' = i
    /\ data0' = b
    /\ pos0' = p
    /\ Returned(Parse(heap[i], Machine(b, p, Container)))
    /\ UNCHANGED <<arg, idx, obj, log, heap>>
    /\ UNCHANGED lazyvars

\* shared[i].build(v)
build_shared(i, v) ==
    /\ pc = "idle"
    /\ op' = "build"
    /\ cid' = i
    /\ arg' = v
    /\ Returned(Build(heap[i], v, Machine(<<>>, 0, Container)))
    /\ UNCHANGED <<data0, pos0, idx, obj, log, heap>>
    /\ UNCHANGED lazyvars

Next ==
    \/ pc = "idle" /\ \E id \in Ids : \E b \in InputsOf(id) : \E p \in 0..MaxStart :
                        parse_stream(id, b, p)
    \/ pc = "idle" /\ \E id \in LazyIds : \E b \in MarkInputs : \E p \in 0..MaxStart :
                        LazyStruct_parse_stream(id, b, p)
    \/ pc = "idle" /\ \E id \in Ids : \E v \in ValuesOf(id) : build(id, v)
    \/ pc = "idle" /\ \E id \in Ids : sizeof(id)
    \/ parse_built
    \/ build_parsed
    \/ pc = "done" /\ \E i \in 1..Len(data) : \E x \in ByteVals : parse_mutated(i, x)
    \/ pc = "idle" /\ \E id \in StructIds : \E b \in InputsOf(id) : \E p \in 0..MaxStart :
                        Struct_parse_begin(id, b, p)
    \/ Struct_parse_step
    \/ Struct_parse_end
    \/ pc = "idle" /\ \E id \in StructIds : \E v \in ValuesOf(id) : Struct_build_begin(id, v)
    \/ Struct_build_step
    \/ Struct_build_end
    \/ Return

Spec == Init /\ [][Next]_vars

\* the life of the shared objects: wrappers are built around them and they
\* are parsed and built with, in any order
NextShared ==
    \/ pc = "idle" /\ \E i \in Shared : \E name \in Names : new_Reconfig(i, name)
    \/ pc = "idle" /\ \E w \in Wrappers : \E i \in Shared : new_Subconstruct(w, i)
    \/ pc = "idle" /\ \E i \in Shared : \E b \in Inputs : \E p \in 0..MaxStart :
                        parse_shared(i, b, p)
    \/ pc = "idle" /\ \E i \in Shared : \E v \in {None, PyInt(1), PyInt(256)} : build_shared(i, v)
    \/ Return

SpecShared == Init /\ [][NextShared]_vars

\* the linked list parsed record by record; the interpreter runs a call to
\* its end, so a step that can be taken is taken
NextList ==
    \/ pc = "idle" /\ \E b \in ListInputs : \E p \in 0..MaxStart : Node_parse_begin(b, p)
    \/ Node_parse_step
    \/ Return

\* weak fairness of Node_parse_step, WF_vars(Node_parse_step), written out:
\* the step is enabled exactly when pc = "list"
ListFair == <>[](pc = "list") => []<><<Node_parse_step>>_vars

SpecList == Init /\ [][NextList]_vars /\ ListFair

\* ---- two threads calling parse, build and sizeof on one LazyBound object.
\* Each thread runs LazyBound._parse / _build / _sizeof one statement part
\* at a time; nothing in the methods takes a lock, so the parts interleave.
InitBound ==
    /\ pc = "idle" /\ op = "none" /\ cid = "none" /\ arg = None
    /\ data0 = <<>> /\ pos0 = 0 /\ data = <<>> /\ pos = 0
    /\ ctx = Container /\ ret = None /\ err = NoError
    /\ idx = 0 /\ obj = Container /\ log = <<>>
    /\ heap = InitHeap /\ wrappers = <<>>
    /\ \E f \in Thunks : lazy = [bindfunc |-> f, bound |-> None]
    /\ invoked = 0
    /\ thread = [t \in Threads |-> InitThread]

\* thread t enters LazyBound._parse, _build or _sizeof
LazyBound_call(t, o) ==
    /\ thread[t].pc = "idle"
    /\ thread[t].calls < MaxCalls
    /\ thread' = [thread EXCEPT ![t].pc = "test", ![t].op = o]
    /\ UNCHANGED <<lazy, invoked, callvars>>

\* if self.bound is None:
LazyBound_test(t) ==
    /\ thread[t].pc = "test"
    /\ thread' = [thread EXCEPT ![t].pc = IF lazy.bound = None THEN "bind" ELSE "run"]
    /\ UNCHANGED <<lazy, invoked, callvars>>

\* self.bindfunc() is evaluated
LazyBound_bind(t) ==
    /\ thread[t].pc = "bind"
    /\ invoked' = invoked + 1
    /\ thread' = [thread EXCEPT ![t].pc = "store",
                                ![t].made = bindfunc(lazy.bindfunc, invoked + 1)]
    /\ UNCHANGED <<lazy, callvars>>

\* self.bound = <the thunk's result>
LazyBound_store(t) ==
    /\ thread[t].pc = "store"
    /\ lazy' = [lazy EXCEPT !.bound = thread[t].made]
    /\ thread' = [thread EXCEPT ![t].pc = "run"]
    /\ UNCHANGED <<invoked, callvars>>

\* self.bound._parse(stream, context), ._build(...) or ._sizeof(context):
\* the construct read from self.bound now handles the call
LazyBound_run(t) ==
    /\ thread[t].pc = "run"
    /\ thread' = [thread EXCEPT ![t].pc = "idle", ![t].on = lazy.bound,
                                ![t].calls = @ + 1]
    /\ UNCHANGED <<lazy, invoked, callvars>>

NextBound ==
    \/ \E t \in Threads : \E o \in {"parse", "build", "sizeof"} : LazyBound_call(t, o)
    \/ \E t \in Threads : LazyBound_test(t)
    \/ \E t \in Threads : LazyBound_bind(t)
    \/ \E t \in Threads : LazyBound_store(t)
    \/ \E t \in Threads : LazyBound_run(t)

SpecBound == InitBound /\ [][NextBound]_vars

\* the record-by-record run and the whole call leave the same outcome
NodeStepwiseAgrees ==
    (pc = "done" /\ op = "parse" /\ cid = "Node") =>
        LET r == Parse(Cat("Node"), Machine(data0, pos0, Container))
        IN  /\ err = r.err
            /\ data = r.m.data
            /\ pos = r.m.pos
            /\ (err = NoError => ValEq(ret, r.val))

\* the stepped Struct call and the whole call leave the same outcome
StepwiseAgrees ==
    (pc = "done" /\ op \in {"parse", "build"} /\ cid \in StructIds /\ log # <<>>) =>
        LET r == IF op = "parse" THEN Parse(Cat(cid), Machine(data0, pos0, Container))
                 ELSE Build(Cat(cid), arg, Machine(<<>>, 0, Container))
        IN  /\ err = r.err
            /\ data = r.m.data
            /\ pos = r.m.pos
            /\ (op = "parse" /\ err = NoError => ValEq(ret, r.val))

(***************************************************************************)
(* Properties.                                                             *)
(***************************************************************************)
\* a call on the construct id has returned or raised
Done(o, id) == pc = "done" /\ op = o /\ cid = id

\* C1: for every integer v >= 0, VarInt.parse(VarInt.build(v)) == v
\* (values of one, two and three bytes).
VarIntRoundTrip ==
    (Done("parseback", "VarInt") /\ arg.v >= 0) => (err = NoError /\ ValEq(ret, arg))

\* the Protocol Buffers base-128 value of a byte string: the first byte
\* carries the least significant seven bits
RECURSIVE Base128Value(_)
Base128Value(b) == IF b = <<>> THEN 0 ELSE (Head(b) % 128) + 128 * Base128Value(Tail(b))

\* the Protocol Buffers base-128 bytes of v >= 0
RECURSIVE Base128Bytes(_)
Base128Bytes(v) == IF v < 128 THEN <<v>> ELSE <<128 + (v % 128)>> \o Base128Bytes(v \div 128)

\* the bytes of b from position p (0-based) to the first byte without the
\* high bit, that byte included; <<>> when there is no such byte
RECURSIVE VarIntBytes(_, _)
VarIntBytes(b, p) ==
    IF p >= Len(b) THEN <<>>
    ELSE IF b[p + 1] < 128 THEN <<b[p + 1]>>
    ELSE LET rest == VarIntBytes(b, p + 1)
         IN  IF rest = <<>> THEN <<>> ELSE <<b[p + 1]>> \o rest

\* C2: VarInt is the Protocol Buffers base-128 format in both directions:
\* parse of b0..bk (high bit set on all but bk) returns the sum of
\* (bi mod 128) * 128^i, and build(v) emits exactly those bytes.
VarIntIsBase128 ==
    /\ (Done("parse", "VarInt") /\ VarIntBytes(data0, pos0) # <<>>) =>
            /\ err = NoError
            /\ ValEq(ret, PyInt(Base128Value(VarIntBytes(data0, pos0))))
    /\ (Done("build", "VarInt") /\ arg.v >= 0) =>
            /\ err = NoError
            /\ data = Base128Bytes(arg.v)

\* the constructs of the static-size contract
StaticSized ==
    {"StaticField", "Padding", "String", "Const", "Pair", "MetaArray", "Aligned", "Peek",
     "Prefixed"}

\* C3: when C.sizeof() returns n without a context, every successful
\* C.build writes exactly n bytes and every successful C.parse advances
\* the stream by exactly n bytes.
StaticSizeContract ==
    (pc = "done" /\ cid \in StaticSized /\ err = NoError) =>
        LET s == Sizeof(Cat(cid), Container)
        IN  s.err = NoError =>
                /\ op = "build" => Len(data) = s.n
                /\ op = "parse" => pos - pos0 = s.n

SelectIds == {"Select", "SelectConst", "SelectNone"}

\* C4: Select(A, B).parse at position p returns A's result iff A parses at
\* p without a construct error; otherwise B's result iff B, started again
\* at p, parses without one; otherwise it raises select error with the
\* stream back at p.
SelectLaw ==
    (pc = "done" /\ op = "parse" /\ cid \in SelectIds) =>
        LET start == Machine(data0, pos0, Container)
            a == Parse(Cat(cid).subcons[1], start)
            b == Parse(Cat(cid).subcons[2], start)
        IN  /\ a.err \in ConstructError \cup {NoError}
            /\ b.err \in ConstructError \cup {NoError}
            /\ IF a.err = NoError
               THEN err = NoError /\ ValEq(ret, a.val) /\ pos = a.m.pos
               ELSE IF b.err = NoError
               THEN err = NoError /\ ValEq(ret, b.val) /\ pos = b.m.pos
               ELSE err = "SelectError" /\ pos = pos0

\* A (a constant byte 1) read a byte at position 1 and failed; B (two
\* bytes) started again at position 1 and gave the result
SelectLawWitness ==
    /\ Done("parse", "SelectConst")
    /\ pos0 = 1
    /\ data0 = <<0, 2, 3>>
    /\ err = NoError
    /\ ValEq(ret, PyInt(515))
    /\ pos = 3

\* the number of consecutive successful parses of sub from position p, at most cap
RECURSIVE Successes(_, _, _, _)
Successes(sub, b, p, cap) ==
    LET r == Parse(sub, Machine(b, p, Container))
    IN  IF cap = 0 \/ r.err # NoError THEN 0 ELSE 1 + Successes(sub, b, r.m.pos, cap - 1)

\* Range.parse: min <= k <= max items, k the smaller of max and the number
\* of consecutive successes, or range error when that number is below min
RangeParseLaw ==
    Done("parse", "Range") =>
        LET c == Cat("Range")
            n == Successes(c.subcon, data0, pos0, c.maxcount + 1)
        IN  IF n < c.mincount THEN err = "RangeError"
            ELSE /\ err = NoError
                 /\ ret.k = "list"
                 /\ Len(ret.v) = Min2(c.maxcount, n)
                 /\ c.mincount <= Len(ret.v) /\ Len(ret.v) <= c.maxcount

\* the input of Range.build is a sequence whose length is in [min, max]
RangeAcceptable == arg.k = "list" /\ Len(arg.v) \in Cat("Range").mincount..Cat("Range").maxcount

Buildable(sub, items) ==
    \A i \in DOMAIN items : Build(sub, items[i], Machine(<<>>, 0, Container)).err = NoError

\* the bytes the sub writes for the items, one after the other
RECURSIVE BuiltItems(_, _)
BuiltItems(sub, items) ==
    IF items = <<>> THEN <<>>
    ELSE Build(sub, Head(items), Machine(<<>>, 0, Container)).m.data \o BuiltItems(sub, Tail(items))

\* the number of items before the first one the sub fails to build with a
\* construct error
BuiltBefore(sub, items) ==
    LET bad == {i \in DOMAIN items :
                    Build(sub, items[i], Machine(<<>>, 0, Container)).err \in ConstructError}
    IN  (CHOOSE i \in bad : \A j \in bad : i <= j) - 1

UnionAdvances ==
    Done("parse", "Union") =>
        LET c == Cat("Union")
            a == Sizeof(c.subcons[1], Container)
            b == Sizeof(c.subcons[2], Container)
            u == Sizeof(c, Container)
        IN  /\ a.err = NoError /\ b.err = NoError /\ u.err = NoError
            /\ u.n = Max2(a.n, b.n)
            /\ (err = NoError /\ Len(data0) - pos0 >= u.n) => pos = pos0 + u.n

\* the sub stores a value under its own name: it is named and not embedded
Named(sc) == sc.name # NoName /\ ~is_flag(sc.conflags, FLAG_EMBED)

\* ... and, on build, takes its value from the object given
Ordinary(sc) == Named(sc) /\ sc.k \notin {"Computed", "Anchor", "AnchorRange", "Checksum"}

\* the names a sub binds in the context it is given: its own, and through a
\* struct built with nested=False (directly or as an alternative of a Select)
\* the names of that struct's fields
RECURSIVE Binds(_)
Binds(sc) ==
    (IF Named(sc) THEN {sc.name} ELSE {})
    \cup (IF sc.k = "Select" \/ (sc.k = "Struct" /\ ~sc.nested)
          THEN UNION {Binds(sc.subcons[h]) : h \in DOMAIN sc.subcons}
          ELSE {})

\* sub i is the last sub before index j that stores a value under its name
\* (names repeat only in a struct built with allow_overwrite, or when a
\* later sub is a struct with nested=False that has a field of that name)
LastOfName(c, i, j) ==
    \A h \in (i + 1)..(j - 1) : c.subcons[i].name \notin Binds(c.subcons[h])

\* C7: during Struct.parse, when the sub at index i+1 starts, the context
\* maps the name of every earlier named sub to the value that sub produced
\* (so a length byte followed by a MetaField of ctx.length bytes parses
\* 03 A B C rest to {length = 3, data = A B C} and leaves rest unread);
\* during Struct.build, the value of each ordinary named sub is bound under
\* its name in the context before that sub writes.
StructContextLaw ==
    /\ (cid \in StructIds /\ op = "parse" /\ pc \in {"struct", "done"}) =>
            \A j \in DOMAIN log : \A i \in 1..(j - 1) :
                LET sc == Cat(cid).subcons[i]
                IN  (Named(sc) /\ LastOfName(Cat(cid), i, j)) =>
                        /\ Has(log[j].ctx, sc.name)
                        /\ ValEq(Get(log[j].ctx, sc.name), log[i].val)
    /\ (cid \in StructIds /\ op = "parse" /\ pc = "struct") =>
            \A i \in 1..(idx - 1) :
                LET sc == Cat(cid).subcons[i]
                IN  (Named(sc) /\ LastOfName(Cat(cid), i, idx)) =>
                        (Has(ctx, sc.name) /\ ValEq(Get(ctx, sc.name), log[i].val))
    /\ (Done("parse", "LenData") /\ pos0 < Len(data0)
            /\ Len(data0) - pos0 >= 1 + data0[pos0 + 1]) =>
            LET n == data0[pos0 + 1]
            IN  /\ err = NoError
                /\ ValEq(ret, MakeCon(<<"length", "data">>,
                                      <<PyInt(n), PyBytes(SubSeq(data0, pos0 + 2, pos0 + 1 + n))>>))
                /\ pos = pos0 + 1 + n
    /\ (cid \in StructIds /\ op = "build" /\ pc \in {"struct", "done"}) =>
            \A j \in DOMAIN log :
                LET sc == Cat(cid).subcons[j]
                IN  Ordinary(sc) =>
                        /\ Has(log[j].ctx, sc.name)
                        /\ ValEq(Get(log[j].ctx, sc.name), Get(arg, sc.name))

\* 03 A B C rest was parsed sub by sub: the MetaField started with length
\* bound to 3 in its context, and rest is unread
StructContextWitness ==
    /\ Done("parse", "LenData")
    /\ data0 = <<3, 1, 2, 1, 2>>
    /\ pos0 = 0
    /\ Len(log) = 2
    /\ ValEq(Get(log[2].ctx, "length"), PyInt(3))
    /\ ValEq(Get(ret, "data"), PyBytes(<<1, 2, 1>>))
    /\ pos = 4

\* the stored checksum byte differs from the hash of the bytes in the anchor range
HashDiffers(b) == Len(b) >= 2 /\ ~ValEq(PyInt(b[2]), hashfunc(SubSeq(b, 1, 1)))

\* C8: for a Struct (default options) of AnchorRange(r), a data field,
\* AnchorRange(r), Checksum(field, hash, r): parsing the bytes build
\* produced succeeds, and parsing them with a byte inside the anchor range
\* changed, so that the hash differs, fails with checksum error (Checksum.parse
\* raises checksum error iff the stored value differs from the hash of the
\* stream bytes in [offset1, offset2)).
ChecksumStructLaw ==
    /\ Done("parseback", "Checked") =>
            /\ err = NoError
            /\ ValEq(Get(ret, "a"), Get(arg, "a"))
    /\ (Done("parsemutated", "Checked") /\ idx = 1) =>
            (err = "ChecksumError" <=> HashDiffers(data0))

\* C9: a Struct (default options) of AnchorRange(r), a field, AnchorRange(r)
\* parses successfully, and its result holds under r the record offset1 = the
\* position at the first occurrence, offset2 = the position at the second,
\* length = offset2 - offset1 (b"\xff"-like input of one byte field gives
\* {offset1 = 0, offset2 = 1, length = 1}).
AnchorRangeLaw ==
    (Done("parse", "Anchored") /\ Len(data0) - pos0 >= 1) =>
        /\ err = NoError
        /\ Has(ret, "range")
        /\ ValEq(Get(ret, "range"), RangeRecord(PyInt(pos0), PyInt(pos0 + 1)))
        /\ ValEq(Get(ret, "a"), PyInt(data0[pos0 + 1]))

\* C10: a Struct with an embedded Struct in its sub list parses to one flat
\* container holding the parent's and the child's fields in declaration
\* order, with no key for the child's own name; build of that flat container
\* writes the bytes of the parent's and the child's fields in declaration order.
EmbedLaw ==
    /\ (pc = "done" /\ cid = "Embedding" /\ op = "parse") =>
            LET flat == Parse(Cat("Flat"), Machine(data0, pos0, Container))
            IN  /\ err = flat.err
                /\ pos = flat.m.pos
                /\ err = NoError <=> Len(data0) - pos0 >= 3
                /\ err = NoError =>
                        /\ ret.keys = <<"a", "c", "e">>
                        /\ ~Has(ret, "inner")
                        /\ ValEq(ret, flat.val)
                        /\ \A i \in 1..3 : ValEq(Get(ret, ret.keys[i]), PyInt(data0[pos0 + i]))
    /\ (pc = "done" /\ cid = "Embedding" /\ op = "build" /\ arg.keys = <<"a", "c", "e">>) =>
            LET flat == Build(Cat("Flat"), arg, Machine(<<>>, 0, Container))
            IN  /\ err = flat.err
                /\ data = flat.m.data
                /\ err = NoError => data = <<Get(arg, "a").v, Get(arg, "c").v, Get(arg, "e").v>>

\* a flat container was built to 01 02 03 and parsed back to itself
EmbedWitness ==
    /\ Done("parseback", "Embedding")
    /\ data0 = <<1, 2, 3>>
    /\ err = NoError
    /\ ret.keys = <<"a", "c", "e">>
    /\ ValEq(ret, arg)

\* C11: Struct.parse raises overwrite error when a named sub produces a value
\* for a name that is already a key of the result and allow_overwrite is
\* false; with allow_overwrite true no error is raised and the later value
\* replaces the earlier one in the container and in the context.
OverwriteLaw ==
    /\ (cid \in {"Dup", "DupAllowed"} /\ pc = "done" /\ op = "parse") =>
            IF Len(data0) - pos0 < 2 THEN err = "FieldError"
            ELSE IF cid = "Dup" THEN err = "OverwriteError"
            ELSE /\ err = NoError
                 /\ ret.keys = <<"a">>
                 /\ ValEq(Get(ret, "a"), PyInt(data0[pos0 + 2]))
    /\ (cid = "DupAllowed" /\ pc = "struct" /\ op = "parse" /\ idx = 3) =>
            /\ ValEq(Get(obj, "a"), PyInt(data0[pos0 + 2]))
            /\ ValEq(Get(ctx, "a"), PyInt(data0[pos0 + 2]))
    /\ (cid = "Dup" /\ pc = "struct" /\ op = "parse") => idx <= 2

\* 01 02 was parsed sub by sub with allow_overwrite: the second value is
\* the one in the container and in the context
OverwriteWitness ==
    /\ cid = "DupAllowed" /\ pc = "struct" /\ op = "parse" /\ idx = 3
    /\ data0 = <<1, 2>>
    /\ ValEq(Get(obj, "a"), PyInt(2))
    /\ ValEq(Get(ctx, "a"), PyInt(2))

\* C12: constructing a wrapper around an existing construct leaves the
\* wrapped construct's name and flags unchanged; the shared Pass and
\* Terminator keep name None after any sequence of constructions, parses
\* and builds.
WrappedUnchanged ==
    \A i \in Shared :
        /\ heap[i].name = InitHeap[i].name
        /\ heap[i].conflags = InitHeap[i].conflags

\* the list a byte string holds from position p: records of a value byte and
\* a next byte up to the first record whose next is 0, or a field error when
\* the bytes end first
RECURSIVE ListAt(_, _)
ListAt(b, p) ==
    IF Len(b) - p < 2 THEN [err |-> "FieldError", val |-> None, pos |-> p]
    ELSE IF b[p + 2] = 0
    THEN [err |-> NoError, pos |-> p + 2,
          val |-> MakeCon(<<"value", "next", "tail">>, <<PyInt(b[p + 1]), PyInt(0), None>>)]
    ELSE LET t == ListAt(b, p + 2)
         IN  IF t.err # NoError THEN t
             ELSE [err |-> NoError, pos |-> t.pos,
                   val |-> MakeCon(<<"value", "next", "tail">>,
                                   <<PyInt(b[p + 1]), PyInt(b[p + 2]), t.val>>)]

\* the result of the linked-list parse: the nested records, read to the end
\* of the record whose next is 0, or a field error
ListResult ==
    Done("parse", "Node") =>
        LET l == ListAt(data0, pos0)
        IN  /\ err = l.err
            /\ err = NoError => (ValEq(ret, l.val) /\ pos = l.pos)

\* C13: parsing the linked list defined through LazyBound terminates on
\* every finite input, returning the nested records that end at the first
\* record whose next is null, or failing with a field error when the input
\* ends first.
ListTerminates == []ListResult /\ ((pc = "list") ~> (pc = "done"))

\* two records, 01 01 then 00 00, were parsed: the first holds the second
ListWitness ==
    /\ Done("parse", "Node")
    /\ data0 = <<1, 1, 0, 0>> /\ pos0 = 0
    /\ err = NoError
    /\ Len(log) = 1
    /\ ValEq(Get(Get(ret, "tail"), "value"), PyInt(0))
    /\ pos = 4

\* the Peek constructs of the catalogue
PeekIds == {"Peek", "PeekConst", "PeekWide"}

\* what Peek.parse and Peek.build leave, given what the sub does where the
\* Peek started
PeekOutcome ==
    /\ (pc = "done" /\ op = "parse" /\ cid \in PeekIds) =>
            LET r == Parse(Cat(cid).subcon, Machine(data0, pos0, Container))
            IN  /\ pos = pos0
                /\ data = data0
                /\ r.err = NoError => (err = NoError /\ ValEq(ret, r.val))
                /\ r.err = "FieldError" => (err = NoError /\ ret = None)
                /\ r.err \notin {NoError, "FieldError"} => err = r.err
    /\ (pc = "done" /\ op = "build" /\ cid \in PeekIds) =>
            (err = NoError /\ data = <<>> /\ pos = 0)

\* the Peek sub of a struct, run as the struct's second sub
PeekStep == pc = "struct" /\ cid = "Peeked" /\ idx = 2

PointerIds == {"Pointer", "PointerEnd"}

\* the absolute position an offset names in a stream of `len` bytes
PointerTarget(off, len) == IF off < 0 THEN len + off ELSE off

\* the bytes `d` after `b` was written over them at position `at`, the gap
\* past the end filled with zero bytes
Overlay(d, at, b) ==
    [i \in 1..Max2(Len(d), at + Len(b)) |->
        IF i > at /\ i <= at + Len(b) THEN b[i - at]
        ELSE IF i <= Len(d) THEN d[i] ELSE 0]

\* a whole Pointer call over a one-byte sub
PointerOutcome ==
    /\ (pc = "done" /\ op = "parse" /\ cid \in PointerIds) =>
            LET at == PointerTarget(Cat(cid).offsetfunc.n, Len(data0))
            IN  /\ (at >= 0 /\ at < Len(data0)) =>
                     /\ err = NoError
                     /\ ret = PyInt(data0[at + 1])
                     /\ pos = pos0
                     /\ data = data0
                /\ at >= Len(data0) => err = "FieldError"
    /\ (pc = "done" /\ op = "build" /\ cid = "Pointer" /\ arg.v < 256) =>
            /\ err = NoError
            /\ data = Overlay(<<>>, Cat(cid).offsetfunc.n, <<arg.v>>)
            /\ pos = 0

\* the Pointer sub of a struct is the next sub to run
PointerStep ==
    /\ pc = "struct"
    /\ idx <= Len(Cat(cid).subcons)
    /\ Cat(cid).subcons[idx].k = "Pointer"

\* the position the Pointer sub about to run points at
PointerAt == PointerTarget(Call(Cat(cid).subcons[idx].offsetfunc, ctx).val.v, Len(data))

\* C15: Pointer.parse and Pointer.build run the sub at the absolute offset
\* the offset function returns, counted back from the stream end when it is
\* negative, and when the call returns the stream position is the position
\* before the call: the enclosing construct sees no byte consumed.
PointerLaw ==
    /\ []PointerOutcome
    /\ [][(PointerStep /\ pc' = "struct") =>
            /\ pos' = pos
            /\ op = "parse" =>
                 /\ data' = data
                 /\ log'[Len(log')].val = PyInt(data[PointerAt + 1])
            /\ op = "build" =>
                 data' = Overlay(data, PointerAt, <<log'[Len(log')].val.v>>)]_vars

\* offset 2 read from the stream: the target is the third byte, and the
\* field after the Pointer is the second byte
PointerWitness ==
    /\ Done("parse", "Pointed")
    /\ data0 = <<2, 5, 3>> /\ pos0 = 0
    /\ err = NoError
    /\ Get(ret, "target") = PyInt(3)
    /\ Get(ret, "after") = PyInt(5)
    /\ pos = 2

\* the String constructs of the catalogue
StringIds == {"String", "StringLeft", "StringCenter"}

\* `n` pad bytes
Pads(n, padchar) == [i \in 1..n |-> padchar]

\* `w` is `s` with pad bytes around it: only after it (right), only before it
\* (left), or both (center), and `s` has no pad byte left on a stripped side
Stripped(w, s, paddir, padchar) ==
    \E l \in 0..Len(w) : \E r \in 0..(Len(w) - l) :
        /\ w = Pads(l, padchar) \o s \o Pads(r, padchar)
        /\ paddir = "right" => (l = 0 /\ (s = <<>> \/ s[Len(s)] # padchar))
        /\ paddir = "left" => (r = 0 /\ (s = <<>> \/ s[1] # padchar))
        /\ paddir = "center" =>
              (s = <<>> \/ (s[1] # padchar /\ s[Len(s)] # padchar))

\* the `length` bytes String.build writes for payload `p`
Written(w, p, c) ==
    LET marg == c.length - Len(p)
    IN  /\ Len(w) = c.length
        /\ (marg >= 0 /\ c.paddir = "right") => w = p \o Pads(marg, c.padchar)
        /\ (marg >= 0 /\ c.paddir = "left") => w = Pads(marg, c.padchar) \o p
        /\ (marg >= 0 /\ c.paddir = "center") =>
              \E l \in 0..marg :
                  /\ w = Pads(l, c.padchar) \o p \o Pads(marg - l, c.padchar)
                  /\ marg >= 2 => (l >= 1 /\ marg - l >= 1)
        /\ (marg < 0 /\ c.trimdir = "right") => w = SubSeq(p, 1, c.length)
        /\ (marg < 0 /\ c.trimdir = "left") => w = SubSeq(p, 1 - marg, Len(p))

\* C16: String(length).build writes exactly `length` bytes for every
\* payload, padded on the paddir side when shorter and cut on the trimdir
\* side when longer; String.parse reads exactly `length` bytes and removes
\* the pad bytes on the paddir side.
StringLaw ==
    /\ (pc = "done" /\ op = "build" /\ cid \in StringIds /\ arg.k = "bytes") =>
            /\ err = NoError
            /\ pos = Cat(cid).length
            /\ Written(data, arg.v, Cat(cid))
    /\ (pc = "done" /\ op = "parse" /\ cid \in StringIds) =>
            LET c == Cat(cid)
            IN  IF Len(data0) - pos0 >= c.length
                THEN /\ err = NoError
                     /\ pos = pos0 + c.length
                     /\ ret.k = "bytes"
                     /\ Stripped(SubSeq(data0, pos0 + 1, pos0 + c.length), ret.v,
                                 c.paddir, c.padchar)
                ELSE err = "FieldError"

\* a three-byte payload cut to its last two bytes
StringWitness ==
    /\ Done("build", "StringLeft")
    /\ arg = PyBytes(<<1, 0, 1>>)
    /\ err = NoError
    /\ data = <<0, 1>>

\* the bytes of one-byte items
ItemBytes(items) == [i \in 1..Len(items) |-> items[i].v]

\* every item fits the one-byte sub
ItemsFit(items) == \A i \in 1..Len(items) : items[i].v \in 0..255

\* a whole call on MetaArray(lambda ctx: 2, UBInt8)
MetaArrayOutcome ==
    /\ (pc = "done" /\ op = "parse" /\ cid = "MetaArray") =>
            IF Len(data0) - pos0 >= 2
            THEN /\ err = NoError
                 /\ ret = PyList(<<PyInt(data0[pos0 + 1]), PyInt(data0[pos0 + 2])>>)
                 /\ pos = pos0 + 2
            ELSE err = "ArrayError"
    /\ (pc = "done" /\ op = "build" /\ cid = "MetaArray" /\ arg.k = "list") =>
            /\ Len(arg.v) # 2 => (err = "ArrayError" /\ data = <<>> /\ pos = 0)
            /\ (Len(arg.v) = 2 /\ ItemsFit(arg.v)) =>
                    (err = NoError /\ data = ItemBytes(arg.v))
    /\ (pc = "done" /\ op = "sizeof" /\ cid = "MetaArray") =>
            (err = NoError /\ ret = PyInt(2 * 1))

\* the array of a struct whose count is the field parsed before it
CountedStep == pc = "struct" /\ cid = "Counted" /\ idx = 2

\* the array's step on parse: `n` items in stream order, or an array error
CountedParse ==
    LET n == Get(ctx, "n").v
    IN  IF Len(data) - pos >= n
        THEN /\ pc' = "struct"
             /\ log'[Len(log')].val = PyList([i \in 1..n |-> PyInt(data[pos + i])])
             /\ pos' = pos + n
        ELSE pc' = "done" /\ err' = "ArrayError"

\* the array's step on build
CountedBuild ==
    LET n == Get(ctx, "n").v
        items == Get(obj, "items").v
    IN  /\ Len(items) # n =>
              (pc' = "done" /\ err' = "ArrayError" /\ data' = data /\ pos' = pos)
        /\ (Len(items) = n /\ ItemsFit(items)) =>
              (pc' = "struct" /\ data' = data \o ItemBytes(items))

\* C17: MetaArray.parse returns exactly count(ctx) items in stream order, or
\* raises array error when the sub fails earlier; MetaArray.build raises
\* array error and writes nothing when the input length differs from
\* count(ctx), and otherwise writes every item in order; sizeof is count
\* times the sub's size.
MetaArrayLaw ==
    /\ []MetaArrayOutcome
    /\ [][(CountedStep /\ op = "parse") => CountedParse]_vars
    /\ [][(CountedStep /\ op = "build") => CountedBuild]_vars

\* a count of 2 read from the stream, met by the two bytes after it
MetaArrayWitness ==
    /\ Done("parse", "Counted")
    /\ data0 = <<2, 5, 3>> /\ pos0 = 0
    /\ err = NoError
    /\ Get(ret, "items") = PyList(<<PyInt(5), PyInt(3)>>)

\* the index of the first item of `s` equal to `stop`, or 0 when none is
FirstStop(s, stop) ==
    IF \E i \in 1..Len(s) : s[i] = stop
    THEN CHOOSE i \in 1..Len(s) : s[i] = stop /\ \A j \in 1..(i - 1) : s[j] # stop
    ELSE 0

\* C18: RepeatUntil.parse returns the items up to and including the first
\* one the predicate holds for and reads no byte after it; RepeatUntil.build
\* writes the items up to and including the first one the predicate holds
\* for and ignores the later ones; each raises array error when no item
\* satisfies the predicate.
RepeatUntilLaw ==
    /\ (pc = "done" /\ op = "parse" /\ cid = "RepeatUntil") =>
            LET w == SubSeq(data0, pos0 + 1, Len(data0))
                n == FirstStop(w, 5)
            IN  IF n > 0
                THEN /\ err = NoError
                     /\ ret = PyList([i \in 1..n |-> PyInt(w[i])])
                     /\ pos = pos0 + n
                ELSE err = "ArrayError"
    /\ (pc = "done" /\ op = "build" /\ cid = "RepeatUntil" /\ arg.k = "list") =>
            LET n == FirstStop(arg.v, PyInt(5))
            IN  /\ (n > 0 /\ ItemsFit(SubSeq(arg.v, 1, n))) =>
                     (err = NoError /\ data = ItemBytes(SubSeq(arg.v, 1, n)))
                /\ (n = 0 /\ ItemsFit(arg.v)) => err = "ArrayError"

\* the terminator is the second byte: the third is left unread
RepeatUntilWitness ==
    /\ Done("parse", "RepeatUntil")
    /\ data0 = <<1, 5, 3>> /\ pos0 = 0
    /\ err = NoError
    /\ ret = PyList(<<PyInt(1), PyInt(5)>>)
    /\ pos = 2

\* the Aligned constructs of the catalogue
AlignedIds == {"Aligned", "AlignedWord", "AlignedHalf"}

\* the least multiple of `modulus` that is at least n
PaddedTotal(n, modulus) == ((n + modulus - 1) \div modulus) * modulus

\* what Aligned.build writes and Aligned.parse consumes
AlignedStream ==
    (pc = "done" /\ cid \in AlignedIds) =>
        LET c == Cat(cid)
            n == c.subcon.length
            total == PaddedTotal(n, c.modulus)
            b == Build(c.subcon, arg, Machine(<<>>, 0, Container))
        IN  /\ (op = "build" /\ b.err = NoError) =>
                  /\ err = NoError
                  /\ data = b.m.data \o Pads(total - n, c.pattern)
            /\ op = "parse" =>
                  IF Len(data0) - pos0 >= total
                  THEN err = NoError /\ pos = pos0 + total
                  ELSE err = "FieldError"

\* C19: Aligned(sub, modulus).build writes the sub's bytes followed by the
\* least number of pad bytes that makes the total a multiple of modulus,
\* Aligned.parse consumes the same total, and Aligned.sizeof returns that
\* padded total (4 for a 1-byte sub and for a 2-byte sub with modulus 4).
AlignedLaw ==
    /\ AlignedStream
    /\ (pc = "done" /\ op = "sizeof" /\ cid \in AlignedIds) =>
            /\ err = NoError
            /\ ret = PyInt(PaddedTotal(Cat(cid).subcon.length, Cat(cid).modulus))

\* the Union constructs of the catalogue: buildfrom unset, an index, a name
UnionIds == {"Union", "UnionIndex", "UnionName"}

\* sub i of the union, as declared, building its part of the value alone
PartOf(id, i, v) ==
    LET sc == Cat(id).subcons[i].subcon
    IN  IF Has(v, sc.name)
        THEN LET r == Build(sc, Get(v, sc.name), Machine(<<>>, 0, Container))
             IN  [ok |-> r.err = NoError, bytes |-> r.m.data]
        ELSE [ok |-> FALSE, bytes |-> <<>>]

\* the sub that buildfrom selects, or 0 when buildfrom is unset
Selected(id) ==
    LET c == Cat(id)
    IN  CASE c.buildfrom.k = "int" -> c.buildfrom.v + 1
          [] c.buildfrom.k = "str" ->
                CHOOSE i \in DOMAIN c.subcons : c.subcons[i].subcon.name = c.buildfrom.v
          [] OTHER -> 0

\* C20: Union.build with buildfrom set to an index or a name writes only
\* the bytes of the selected sub; with buildfrom unset it writes the bytes
\* of the first sub, in declaration order, that builds its part of the value
\* without error and nothing from any other sub, and raises select error
\* when no sub builds.
UnionBuildLaw ==
    (pc = "done" /\ op = "build" /\ cid \in UnionIds /\ arg.k = "con") =>
        LET n == Len(Cat(cid).subcons)
            sel == Selected(cid)
            building == {i \in 1..n : PartOf(cid, i, arg).ok}
        IN  /\ (sel > 0 /\ sel \in building) =>
                  (err = NoError /\ data = PartOf(cid, sel, arg).bytes)
            /\ (sel = 0 /\ building # {}) =>
                  LET first == CHOOSE i \in building : \A j \in building : i <= j
                  IN  err = NoError /\ data = PartOf(cid, first, arg).bytes
            /\ (sel = 0 /\ building = {}) => (err = "SelectError" /\ data = <<>>)

\* the first sub cannot build 65536, so the second sub's byte is written
UnionBuildWitness ==
    /\ Done("build", "Union")
    /\ arg = MakeCon(<<"a", "b">>, <<PyInt(65536), PyInt(2)>>)
    /\ err = NoError
    /\ data = <<2>>

\* the constructs the idempotence of build is stated for
IdemIds ==
    {"String", "StringLeft", "StringCenter", "CString", "Const", "Range", "Select",
     "SelectNarrow"}

\* C21 as stated: C.build(C.parse(C.build(v))) == C.build(v) for every value
\* v that C can build, for String, CString, Const, Range over a fixed-width
\* integer and Select over fixed-width integers of different widths.
BuildIdempotent ==
    (pc = "done" /\ cid \in IdemIds) =>
        /\ op = "parseback" => err = NoError
        /\ op = "rebuild" => (err = NoError /\ data = data0)

\* the values whose first build parses back to a value that builds the same
\* bytes: a centered String's payload fits and has no pad byte at either
\* end, a CString's payload holds no terminator, and a Select's value is
\* built by the first sub that parses the bytes written
Idempotent(id, v) ==
    CASE id = "StringCenter" ->
            /\ Len(v.v) <= Cat(id).length
            /\ v.v # <<>> => (v.v[1] # Cat(id).padchar /\ v.v[Len(v.v)] # Cat(id).padchar)
      [] id = "CString" -> \A i \in 1..Len(v.v) : v.v[i] \notin Range1(Cat(id).terminators)
      [] id = "SelectNarrow" -> v.v \in 0..255
      [] OTHER -> TRUE

\* C21, amended: build is idempotent over parse for String padded on one
\* side, Const, Range over a fixed-width integer and Select whose widest sub
\* comes first, for every value they build; for a centered String, a CString
\* and a Select whose narrower sub comes first, for the values of Idempotent.
BuildIdempotentAmended ==
    (pc = "done" /\ cid \in IdemIds /\ op \in {"parseback", "rebuild"}
        /\ Idempotent(cid, arg)) =>
        /\ op = "parseback" => err = NoError
        /\ op = "rebuild" => (err = NoError /\ data = data0)

\* a two-byte payload cut from three bytes, parsed and built again
BuildIdempotentWitness ==
    /\ pc = "done" /\ op = "rebuild" /\ cid = "StringLeft"
    /\ arg = PyBytes(<<1, 0, 1>>)
    /\ ret = None /\ err = NoError
    /\ data0 = <<0, 1>> /\ data = <<0, 1>>

\* C22: every error kind, overwrite error included, is a kind of the root
\* error, so Select.parse whose first sub raises overwrite error rewinds and
\* tries the next sub, and Range.parse whose sub raises overwrite error
\* stops iterating and rewinds instead of propagating it.
OverwriteRecovered ==
    /\ (Done("parse", "SelectDup") /\ Len(data0) - pos0 >= 2) =>
            /\ err = NoError
            /\ ret = PyInt(data0[pos0 + 1])
            /\ pos = pos0 + 1
    /\ (Done("parse", "RangeDup") /\ Len(data0) - pos0 >= 2) =>
            /\ err = NoError
            /\ ret = PyList(<<>>)
            /\ pos = pos0

\* the context holds neither of the two signals of embedding
NoSignal(context) == ~Has(context, "<obj>") /\ ~Has(context, "<unnested>")

\* C23: after any Struct parse or build has finished, normally or with an
\* error, the context it was given and the scope it created hold neither
\* "<obj>" nor "<unnested>", also when the embedded sub is not a struct
\* (an embedded Switch that resolves to Pass), so a later sibling never
\* sees a left-over signal.
NoLeftoverSignal ==
    /\ (pc = "done" /\ cid = "EmbedFlat" /\ op \in {"parse", "build"}) => NoSignal(ctx)
    /\ (pc = "struct" /\ cid = "EmbedMark") => NoSignal(ctx)

\* C24: on the sub's first failure Range.parse rewinds the stream to the
\* position recorded before the failed attempt, and only then raises range
\* error (fewer than min items) or returns; in both outcomes the stream is
\* at the start position plus the bytes of the items parsed.
RangeRewinds ==
    Done("parse", "RangeWide") =>
        LET c == Cat("RangeWide")
            whole == (Len(data0) - pos0) \div c.subcon.length
            n == IF whole < c.maxcount THEN whole ELSE c.maxcount
        IN  /\ err = IF n < c.mincount THEN "RangeError" ELSE NoError
            /\ pos = pos0 + n * c.subcon.length

\* the names bound in a context
KeysOf(context) == Range1(context.keys)

\* the Select of a struct, run as its second sub: the first alternative
\* rebinds n and reads w, the second reads ctx.n bytes
SelectStep == pc = "struct" /\ op = "parse" /\ cid = "Chosen" /\ idx = 2

\* what the step leaves, from the context the Select was called with
SelectStepFrame ==
    LET n == Get(ctx, "n").v
        avail == Len(data) - pos
    IN  IF avail >= 2
        THEN /\ pc' = "struct"
             /\ KeysOf(ctx') = KeysOf(ctx) \cup {"w", "sel"}
             /\ Get(ctx', "n") = PyInt(data[pos + 1])
             /\ Get(ctx', "w") = PyInt(data[pos + 2])
        ELSE IF n <= avail
        THEN /\ pc' = "struct"
             /\ KeysOf(ctx') = KeysOf(ctx) \cup {"d", "sel"}
             /\ Get(ctx', "n") = PyInt(n)
             /\ Get(ctx', "d") = PyBytes(SubSeq(data, pos + 1, pos + n))
             /\ pos' = pos + n
        ELSE pc' = "done" /\ err' = "SelectError"

\* a whole call on a Select whose alternatives each set an Anchor first
SelectMarksFrame ==
    Done("parse", "SelectMarks") =>
        LET avail == Len(data0) - pos0
        IN  IF avail >= 2
            THEN err = NoError /\ KeysOf(ctx) = {"mark", "w"} /\ Get(ctx, "mark") = PyInt(pos0)
            ELSE IF avail = 1 /\ data0[pos0 + 1] = 1
            THEN err = NoError /\ KeysOf(ctx) = {"other", "k"}
            ELSE err = "SelectError" /\ KeysOf(ctx) = {} /\ pos = pos0

\* C25: in Select.parse a key that a sub adds to or changes in the context
\* before it fails is visible neither to the next sub tried nor to the
\* caller afterwards; the changes of the sub that succeeds are visible in
\* the caller's context once Select returns.
SelectFrameLaw ==
    /\ []SelectMarksFrame
    /\ [][SelectStep => SelectStepFrame]_vars

\* the first alternative rebound n to 2 and failed; the second read one
\* byte, the n the caller bound
SelectFrameWitness ==
    /\ pc = "struct" /\ op = "parse" /\ cid = "Chosen" /\ idx = 3
    /\ data0 = <<1, 2>> /\ pos0 = 0
    /\ Get(ctx, "n") = PyInt(1)
    /\ Get(ctx, "d") = PyBytes(<<2>>)
    /\ ~Has(ctx, "w")

(***************************************************************************)
(* C26: when Range.parse stops on a failed attempt of its sub and returns, *)
(* and when Union's build without buildfrom skips a sub whose build        *)
(* failed, the context holds no key that the failed attempt added or       *)
(* changed.  The repeater runs an un-nested struct that records the        *)
(* position before it reads two bytes; the union's first sub records the   *)
(* position before it writes a byte.                                       *)
(***************************************************************************)
\* the Range returned fewer items than maxcount: its last attempt failed
RangeStopped ==
    /\ Done("parse", "RangeMarks") /\ err = NoError
    /\ Len(ret.v) < Cat("RangeMarks").maxcount

\* the union's first sub was tried on a part it cannot build, the second built
UnionSkipped ==
    /\ Done("build", "UnionMarks") /\ err = NoError
    /\ Has(arg, "first") /\ Get(Get(arg, "first"), "w") = PyInt(256)

FailedAttemptLeavesNoKey ==
    /\ RangeStopped =>
          IF Len(ret.v) = 0 THEN ~Has(ctx, "mark") /\ ~Has(ctx, "w")
          ELSE Get(ctx, "mark") = PyInt(pos0) /\ Get(ctx, "w") = ret.v[Len(ret.v)].v[1]
    /\ UnionSkipped => (~Has(ctx, "mark") /\ ~Has(ctx, "w"))

(***************************************************************************)
(* C27: Restream releases its stream wrapper on every outcome: whether the *)
(* sub's parse or build returns or raises, close() of the wrapper created  *)
(* for the operation has been invoked when the call ends.                  *)
(***************************************************************************)
RestreamCloses ==
    (pc = "done" /\ cid = "Restream" /\ op \in {"parse", "build"}) =>
        wrappers = <<"closed">>

(***************************************************************************)
(* C28: when two threads make the first use (parse, build or sizeof) of    *)
(* the same LazyBound concurrently, under every interleaving the thunk is  *)
(* invoked exactly once and both threads operate on the same bound         *)
(* construct; in a single thread the thunk is invoked at most once over    *)
(* any sequence of calls.                                                  *)
(***************************************************************************)
\* only thread 1 has made calls so far
SingleThread == thread[2] = InitThread

LazyBoundOnce ==
    /\ invoked <= 1
    /\ \A t \in Threads : thread[t].calls > 0 => invoked = 1
    /\ \A t, u \in Threads :
          (thread[t].on # None /\ thread[u].on # None) => thread[t].on = thread[u].on
    /\ SingleThread => invoked <= 1

(***************************************************************************)
(* C29: whenever Range.build returns without raising, the stream has       *)
(* received the sub's encoding of every item of the input, in order, with  *)
(* no item dropped; a failure of the sub on any item makes Range.build     *)
(* raise.  Checked on Range(1, 2, UBInt8('x')).                            *)
(***************************************************************************)
RangeBuildComplete ==
    (Done("build", "Range") /\ arg.k = "list") =>
        /\ err = NoError => data = ItemBytes(arg.v)
        /\ ~ItemsFit(arg.v) => err # NoError

(***************************************************************************)
(* C30: for the same sub list and the same input, LazyStruct.parse         *)
(* succeeds whenever Struct.parse succeeds, advances the stream by the     *)
(* same number of bytes, and every named field read from the lazy          *)
(* container equals the field Struct.parse returns; the sub lists include  *)
(* a length byte followed by that many bytes.                              *)
(***************************************************************************)
\* Struct(id, *subs).parse_stream on the input the lazy struct was given
EagerParse == Parse(Struct(cid, LazySubs(cid), TRUE, FALSE), Machine(data0, pos0, Container))

LazyStructAgrees ==
    (pc = "done" /\ op = "parse" /\ cid \in LazyIds /\ EagerParse.err = NoError) =>
        /\ err = NoError
        /\ pos = EagerParse.m.pos
        /\ \A i \in DOMAIN LazySubs(cid) :
              LET name == LazySubs(cid)[i].name
                  field == LazyContainer_getitem(ret, name, data)
              IN  field.err = NoError /\ ValEq(field.val, Get(EagerParse.val, name))

====
